---------------------------- MODULE Spec2Model ----------------------------
(***************************************************************************)
(* A model of pisky, the Python binding of the disky record storage        *)
(* engine.  The binding (src/src/single_threaded.rs, multi_threaded.rs,    *)
(* shard_helpers.rs) is modelled from its source.  The engine it calls     *)
(* (RecordWriter, RecordReader, MultiThreadedWriter, MultiThreadedReader)  *)
(* is an external crate whose source is not part of src/; the operators    *)
(* whose names start with Engine or Codec model it from the behaviour      *)
(* spec.md gives it.                                                       *)
(***************************************************************************)
EXTENDS Integers, Sequences, FiniteSets, TLC

(***************************************************************************)
(* Bounds of the model.                                                    *)
(***************************************************************************)
MaxRecLen == 2        \* longest record payload of the single-shard model
MaxWrites == 2        \* write_record calls of the single-shard model
MaxCalls == 4         \* calls the Python threads make on a parallel writer or reader
MaxFaults == 1        \* shard files of the parallel writer that fail
MaxPasses == 2        \* passes of the randomized locator that are counted
MaxQueue == 4         \* entries the shared queue of the parallel reader holds
MaxFileLen == 2       \* records of a shard file given to a parallel reader
MaxFrames == 3        \* frames of a damaged file given to a single-shard reader
MaxLogCalls == 3      \* set_log_level calls that are made

VARIABLES
    \* ---- single-shard writer and reader (single_threaded.rs) ----
    sComp,        \* compression of the RecordWriter's configuration
    sBuf,         \* RecordWriter: frames buffered and not yet in the file
    sFile,        \* the bytes of the file
    sWClosed,     \* RecordWriter: closed
    sWRes,        \* what the last PyRecordWriter call returned
    sWritten,     \* records whose write_record returned success, in order
    sCloseOk,     \* PyRecordWriter.close has returned success
    sCalls,       \* PyRecordWriter calls made so far
    sROpen,       \* a PyRecordReader exists (values: "no", "fresh", "early")
    sRPos,        \* RecordReader: offset of the next frame in the file
    sRRes,        \* what the last PyRecordReader.next_record returned
    sDelivered,   \* records next_record has returned, in order
    \* ---- single-shard reader on a given, possibly damaged file ----
    dExists,      \* the file at the path can be opened
    dFrames,      \* the frames of the file, each a valid record or corrupt
    dArg,         \* the corruption_strategy argument
    dOpen,        \* PyRecordReader: "no", "open" or "failed" (new returned an error)
    dNewRes,      \* what PyRecordReader.new returned
    dStrategy,    \* RecordReader: the corruption strategy of its configuration
    dPos,         \* RecordReader: index of the next frame
    dFatal,       \* RecordReader: it has reported a fatal error
    dResults,     \* what next_record has returned, call by call
    dCountRes,    \* what PyRecordReader.count_records returned
    \* ---- construction, scoped use and the module's logger ----
    nArg,         \* the compression argument of new_with_shards
    nRes,         \* what PyMultiThreadedWriter.new_with_shards returned
    wComp,        \* MultiThreadedWriter: compression of its configuration
    sExit,        \* PyRecordWriter.__exit__: the call made, or NoCall
    logLoaded,    \* the module _pisky has been initialised
    logOn,        \* a global logger is installed
    logLevel,     \* the level filter of the installed logger
    logCalls,     \* the set_log_level calls made: argument and result
    \* ---- Python threads calling a parallel writer or reader ----
    gil,          \* the thread holding the interpreter lock, or NoThread
    pc,           \* per thread: where it is in its current call
    arg,          \* per thread: the record of its write_record call
    op,           \* per thread: its last call, and whether the object was closed then
    res,          \* per thread: what its last call returned
    calls,        \* calls started so far on the current writer or reader
    \* ---- MultiThreadedWriter (engine) ----
    wN,           \* worker_threads
    wReq,         \* the task_queue_capacity argument of new_with_shards
    wCap,         \* task_queue_capacity of the configuration
    wState,       \* "open", "closing" (close is draining) or "closed"
    wCloser,      \* the thread whose close is draining
    wQueue,       \* per worker: its task queue, the head being the oldest
    wBusy,        \* per worker: it is writing the head of its queue
    files,        \* per shard: the records of the shard file, in order
    wFailed,      \* per shard: the shard is in its permanent error state
    wFaults,      \* shards that have failed so far
    handle,       \* per thread: its write handle
    written,      \* records whose write_record returned success
    \* ---- MultiThreadedReader (engine) ----
    rState,       \* "none" (not constructed), "open" or "closed"
    rKind,        \* the shard locator: "dir", "paths" or "random"
    rReq,         \* the queue_size_mb argument the reader was constructed with
    rCap,         \* queue_size_bytes of the configuration
    rN,           \* worker threads
    rOrder,       \* the order in which this pass hands out the shard paths
    rNextIdx,     \* index in rOrder of the next path to hand out
    rPass,        \* passes completed (it stops counting at MaxPasses)
    rPath,        \* per worker: the path it is reading, or NoPath
    rPos,         \* per worker: index of the next record of its path
    rTerm,        \* per worker: it has terminated
    rQueue,       \* the shared queue, the head being the oldest entry
    rEof,         \* EndOfStream entries emitted so far
    delivered,    \* what next_record has returned to Python, in order
    cnt           \* per thread: the count of its count_records scan

dvars == <<dExists, dFrames, dArg, dOpen, dNewRes, dStrategy, dPos, dFatal, dResults,
           dCountRes>>

s1vars == <<sComp, sBuf, sFile, sWClosed, sWRes, sWritten, sCloseOk, sCalls,
            sROpen, sRPos, sRRes, sDelivered>>

mvars == <<nArg, nRes, wComp, sExit, logLoaded, logOn, logLevel, logCalls>>

svars == <<s1vars, dvars, mvars>>

tvars == <<gil, pc, arg, op, res, calls>>

wvars == <<wN, wReq, wCap, wState, wCloser, wQueue, wBusy, files, wFailed, wFaults, handle,
           written>>

rvars == <<rState, rKind, rReq, rCap, rN, rOrder, rNextIdx, rPass, rPath, rPos, rTerm, rQueue,
           rEof, delivered, cnt>>

vars == <<svars, tvars, wvars, rvars>>

(***************************************************************************)
(* Values.                                                                 *)
(***************************************************************************)
Byte == {0, 1}

RECURSIVE SeqsUpTo(_, _)
SeqsUpTo(S, n) ==
    IF n = 0 THEN {<<>>}
    ELSE LET shorter == SeqsUpTo(S, n - 1)
         IN  shorter \cup {Append(s, x) : s \in {q \in shorter : Len(q) = n - 1}, x \in S}

Records == SeqsUpTo(Byte, MaxRecLen)

\* What a binding method hands back to Python.  Every engine error becomes
\* PyIOError::new_err(e.to_string()): one Python type, the engine's error in
\* the message.
PyOk == [type |-> "Ok"]
PyNone == [type |-> "None"]
PyBytes(b) == [type |-> "Bytes", bytes |-> b]
PyIOError(e) == [type |-> "PyIOError", msg |-> e]
NoResult == [type |-> "NoResult"]

\* Engine results.
Ok == [ok |-> TRUE]
Err(e) == [ok |-> FALSE, err |-> e]

(***************************************************************************)
(* Record codec (spec.md 3, 4.1): a frame is a length prefix, a            *)
(* compression tag, the possibly compressed payload and an integrity       *)
(* marker.                                                                 *)
(***************************************************************************)
RECURSIVE SumSeq(_)
SumSeq(s) == IF s = <<>> THEN 0 ELSE Head(s) + SumSeq(Tail(s))

CodecTag(comp) == IF comp = "zstd" THEN 1 ELSE 0

\* The compressor is any invertible byte transform that is not the identity.
CodecCompress(p) == [i \in 1..Len(p) |-> 1 - p[Len(p) + 1 - i]]
CodecDecompress(p) == [i \in 1..Len(p) |-> 1 - p[Len(p) + 1 - i]]

CodecMarker(p) == 2 + ((SumSeq(p) + Len(p)) % 3)

CodecEncode(rec, comp) ==
    LET p == IF comp = "zstd" THEN CodecCompress(rec) ELSE rec
    IN  <<Len(p), CodecTag(comp)>> \o p \o <<CodecMarker(p)>>

\* decode(source) -> Record | CleanEOF | CorruptFrame, at offset pos (1-based).
CodecDecode(file, pos) ==
    IF pos > Len(file) THEN [kind |-> "EOF"]
    ELSE IF pos + 2 > Len(file) THEN [kind |-> "Corrupt"]
    ELSE LET n == file[pos]
             tag == file[pos + 1]
         IN  IF tag \notin {0, 1} \/ n \notin 0..Len(file) \/ pos + 2 + n > Len(file)
             THEN [kind |-> "Corrupt"]
             ELSE LET p == SubSeq(file, pos + 2, pos + 1 + n)
                  IN  IF file[pos + 2 + n] # CodecMarker(p)
                      THEN [kind |-> "Corrupt"]
                      ELSE [kind |-> "Record",
                            bytes |-> IF tag = 1 THEN CodecDecompress(p) ELSE p,
                            next |-> pos + 3 + n]

(***************************************************************************)
(* Engine: single-shard RecordWriter (spec.md 4.2).                        *)
(***************************************************************************)
EngineWriterWrite(data) ==
    IF sWClosed
    THEN [res |-> Err("InvalidState"), buf |-> sBuf]
    ELSE [res |-> Ok, buf |-> sBuf \o CodecEncode(data, sComp)]

EngineWriterFlush ==
    IF sWClosed
    THEN [res |-> Err("InvalidState"), buf |-> sBuf, file |-> sFile]
    ELSE [res |-> Ok, buf |-> <<>>, file |-> sFile \o sBuf]

EngineWriterClose ==
    IF sWClosed
    THEN [res |-> Err("InvalidState"), buf |-> sBuf, file |-> sFile, closed |-> TRUE]
    ELSE [res |-> Ok, buf |-> <<>>, file |-> sFile \o sBuf, closed |-> TRUE]

\* map_err(|e| PyIOError::new_err(e.to_string()))
MapErr_Swallowed(r) == PyOk

MapErr(r) == IF r.ok THEN PyOk ELSE PyIOError(r.err)

(***************************************************************************)
(* PyRecordWriter (single_threaded.rs 28-44).                              *)
(***************************************************************************)
PyRecordWriter_write_record(data) ==
    /\ sCalls < MaxWrites + 2
    /\ LET r == EngineWriterWrite(data)
       IN  /\ sBuf' = r.buf
           /\ sWRes' = MapErr(r.res)
           /\ sWritten' = IF r.res.ok THEN Append(sWritten, data) ELSE sWritten
    /\ sCalls' = sCalls + 1
    /\ Len(sWritten) < MaxWrites
    /\ UNCHANGED <<sComp, sFile, sWClosed, sCloseOk, sROpen, sRPos, sRRes, sDelivered>>
    /\ UNCHANGED <<dvars, mvars, tvars, wvars, rvars>>

PyRecordWriter_flush ==
    /\ sCalls < MaxWrites + 2
    /\ LET r == EngineWriterFlush
       IN  /\ sBuf' = r.buf
           /\ sFile' = r.file
           /\ sWRes' = MapErr(r.res)
    /\ sCalls' = sCalls + 1
    /\ UNCHANGED <<sComp, sWClosed, sWritten, sCloseOk, sROpen, sRPos, sRRes, sDelivered>>
    /\ UNCHANGED <<dvars, mvars, tvars, wvars, rvars>>

PyRecordWriter_close ==
    /\ sCalls < MaxWrites + 2
    /\ LET r == EngineWriterClose
       IN  /\ sBuf' = r.buf
           /\ sFile' = r.file
           /\ sWClosed' = r.closed
           /\ sWRes' = MapErr(r.res)
           /\ sCloseOk' = (sCloseOk \/ r.res.ok)
    /\ sCalls' = sCalls + 1
    /\ UNCHANGED <<sComp, sWritten, sROpen, sRPos, sRRes, sDelivered>>
    /\ UNCHANGED <<dvars, mvars, tvars, wvars, rvars>>

(***************************************************************************)
(* Engine: single-shard RecordReader (spec.md 4.3) and PyRecordReader      *)
(* (single_threaded.rs 69-83, 111-121).                                    *)
(***************************************************************************)
EngineReaderNext ==
    LET d == CodecDecode(sFile, sRPos)
    IN  CASE d.kind = "EOF" -> [res |-> Ok, piece |-> "EOF", pos |-> sRPos]
          [] d.kind = "Record" -> [res |-> Ok, piece |-> "Record", bytes |-> d.bytes,
                                   pos |-> d.next]
          [] OTHER -> [res |-> Err("Corruption"), piece |-> "None", pos |-> sRPos]

PyRecordReader_new ==
    /\ sROpen = "no"
    /\ sROpen' = IF sCloseOk THEN "fresh" ELSE "early"
    /\ sRPos' = 1
    /\ UNCHANGED <<sComp, sBuf, sFile, sWClosed, sWRes, sWritten, sCloseOk, sCalls,
                   sRRes, sDelivered>>
    /\ UNCHANGED <<dvars, mvars, tvars, wvars, rvars>>

\* next_record, lines 112-120: the match on what the engine's reader returned.
PyRecordReader_next_record_match_EmptyIsEnd(r) ==
    IF ~r.res.ok THEN PyIOError(r.res.err)
    ELSE IF r.piece = "Record" /\ r.bytes # <<>> THEN PyBytes(r.bytes)
    ELSE PyNone

PyRecordReader_next_record_match(r) ==
    IF ~r.res.ok THEN PyIOError(r.res.err)
    ELSE IF r.piece = "Record" THEN PyBytes(r.bytes)
    ELSE PyNone

PyRecordReader_next_record ==
    /\ sROpen # "no"
    /\ sRRes.type \notin {"None", "PyIOError"}
    /\ LET r == EngineReaderNext
           out == PyRecordReader_next_record_match(r)
       IN  /\ sRPos' = r.pos
           /\ sRRes' = out
           /\ sDelivered' = IF out.type = "Bytes"
                            THEN Append(sDelivered, out.bytes) ELSE sDelivered
    /\ UNCHANGED <<sComp, sBuf, sFile, sWClosed, sWRes, sWritten, sCloseOk, sCalls, sROpen>>
    /\ UNCHANGED <<dvars, mvars, tvars, wvars, rvars>>

(***************************************************************************)
(* Python threads and the interpreter lock.  A thread needs the lock to    *)
(* enter a method of the binding; py.allow_threads gives the lock up for   *)
(* the engine call inside it and takes it again before the method returns. *)
(***************************************************************************)
NoThread == 0
PyThreads == {1, 2}

None == [some |-> FALSE]
Some(v) == [some |-> TRUE, v |-> v]

MRecords == {"a", "b"}

InCall(t) == pc[t] \notin {"idle", "done"}

\* A call of a method, begun on an object that close had or had not closed;
\* closes counts the close() calls it has made on the engine's object.
NoCall == [name |-> "none", late |-> FALSE, closes |-> 0]
Call(name, closed) == [name |-> name, late |-> closed, closes |-> 0]
EngineCloseCalled(t) == [op EXCEPT ![t].closes = @ + 1]

\* The holder of the lock while the closure of py.allow_threads runs.
AllowThreads_write_record(t) == NoThread
AllowThreads_flush(t) == NoThread
AllowThreads_writer_close(t) == NoThread

\* The method's result is ready: the thread takes the lock again and is back
\* in Python.
Return(t) ==
    /\ pc[t] = "ret"
    /\ gil \in {NoThread, t}
    /\ gil' = t
    /\ pc' = [pc EXCEPT ![t] = "done"]
    /\ UNCHANGED <<arg, op, res, calls>>

\* The interpreter switches away from a thread that runs Python code.
Yield(t) ==
    /\ pc[t] = "done"
    /\ gil' = NoThread
    /\ pc' = [pc EXCEPT ![t] = "idle"]
    /\ UNCHANGED <<arg, op, res, calls>>

TInit ==
    /\ gil = NoThread
    /\ pc = [t \in PyThreads |-> "idle"]
    /\ arg = [t \in PyThreads |-> "a"]
    /\ op = [t \in PyThreads |-> NoCall]
    /\ res = [t \in PyThreads |-> NoResult]
    /\ calls = 0

(***************************************************************************)
(* PyMultiThreadedWriter::new_with_shards (multi_threaded.rs 67-93): the   *)
(* task queue capacity and the worker count handed to the engine.          *)
(***************************************************************************)
WShards == {1, 2}

new_with_shards_capacity_Ignored(task_queue_capacity) == None

new_with_shards_capacity(task_queue_capacity) ==
    IF task_queue_capacity.some THEN Some(task_queue_capacity.v) ELSE None

WWorkers == 1..wN
WorkerOf(s) == ((s - 1) % wN) + 1

(***************************************************************************)
(* Engine: MultiThreadedWriter (spec.md 4.5).  A request holds its place   *)
(* in its worker's task queue from write_record until the worker has       *)
(* written it and resolved its handle.                                     *)
(***************************************************************************)
EngineHasRoom(w) == IF wCap.some THEN Len(wQueue[w]) < wCap.v ELSE TRUE

EngineAllDrained == \A w \in WWorkers : wQueue[w] = <<>>

\* writer.write_record(bytes): refused once close has begun, blocked while the
\* worker's queue is full, and otherwise queued with a pending handle.
EngineWriteRecord(t) ==
    /\ pc[t] = "w_enq"
    /\ IF wState # "open"
       THEN /\ res' = [res EXCEPT ![t] = MapErr(Err("InvalidState"))]
            /\ pc' = [pc EXCEPT ![t] = "ret"]
            /\ UNCHANGED <<wQueue, handle>>
       ELSE \E s \in WShards :
               /\ EngineHasRoom(WorkerOf(s))
               /\ wQueue' = [wQueue EXCEPT ![WorkerOf(s)] =
                                Append(@, [thread |-> t, rec |-> arg[t], shard |-> s])]
               /\ handle' = [handle EXCEPT ![t] = "pending"]
               /\ pc' = [pc EXCEPT ![t] = "w_wait"]
               /\ res' = res
    /\ UNCHANGED <<gil, arg, op, calls, wN, wReq, wCap, wState, wCloser, wBusy, files, wFailed,
                   wFaults, written>>

\* A worker takes up the oldest request of its queue.
EngineWriterWorkerStart(w) ==
    /\ ~wBusy[w]
    /\ wQueue[w] # <<>>
    /\ wBusy' = [wBusy EXCEPT ![w] = TRUE]
    /\ UNCHANGED <<tvars, wN, wReq, wCap, wState, wCloser, wQueue, files, wFailed, wFaults,
                   handle, written>>

\* The worker writes the record to its shard file and resolves the handle; a
\* shard whose file fails stays failed.
EngineWriterWorkerFinish(w) ==
    /\ wBusy[w]
    /\ LET task == Head(wQueue[w])
           s == task.shard
       IN  \E fault \in (IF wFaults < MaxFaults /\ ~wFailed[s] THEN BOOLEAN ELSE {FALSE}) :
              LET bad == wFailed[s] \/ fault
              IN  /\ files' = IF bad THEN files
                              ELSE [files EXCEPT ![s] = Append(@, task.rec)]
                  /\ wFailed' = [wFailed EXCEPT ![s] = bad]
                  /\ wFaults' = IF fault THEN wFaults + 1 ELSE wFaults
                  /\ handle' = [handle EXCEPT ![task.thread] =
                                   IF bad THEN "err" ELSE "ok"]
    /\ wQueue' = [wQueue EXCEPT ![w] = Tail(@)]
    /\ wBusy' = [wBusy EXCEPT ![w] = FALSE]
    /\ UNCHANGED <<tvars, wN, wReq, wCap, wState, wCloser, written>>

\* writer.flush(): an error on a writer that is not open, and otherwise a wait
\* until every queued write is done.
EngineWriterFlushStep(t) ==
    /\ pc[t] = "w_flush"
    /\ wState # "open" \/ EngineAllDrained
    /\ res' = [res EXCEPT ![t] =
                  MapErr(IF wState # "open" THEN Err("InvalidState") ELSE Ok)]
    /\ pc' = [pc EXCEPT ![t] = "ret"]
    /\ UNCHANGED <<gil, arg, op, calls, wvars>>

\* writer.close(): an error once a close has begun; otherwise new requests are
\* refused from here on and the call waits for the queues to drain.
EngineWriterCloseBegin(t) ==
    /\ pc[t] = "w_close"
    /\ IF wState = "open"
       THEN /\ wState' = "closing"
            /\ wCloser' = t
            /\ pc' = [pc EXCEPT ![t] = "w_closing"]
            /\ res' = res
       ELSE /\ res' = [res EXCEPT ![t] = MapErr(Err("InvalidState"))]
            /\ pc' = [pc EXCEPT ![t] = "ret"]
            /\ UNCHANGED <<wState, wCloser>>
    /\ op' = EngineCloseCalled(t)
    /\ UNCHANGED <<gil, arg, calls, wN, wReq, wCap, wQueue, wBusy, files, wFailed, wFaults,
                   handle, written>>

\* The queues are drained: the shard files are closed and the workers joined.
EngineWriterCloseEnd(t) ==
    /\ pc[t] = "w_closing"
    /\ wCloser = t
    /\ EngineAllDrained
    /\ wState' = "closed"
    /\ res' = [res EXCEPT ![t] = MapErr(Ok)]
    /\ pc' = [pc EXCEPT ![t] = "ret"]
    /\ UNCHANGED <<gil, arg, op, calls, wN, wReq, wCap, wCloser, wQueue, wBusy, files, wFailed,
                   wFaults, handle, written>>

(***************************************************************************)
(* PyMultiThreadedWriter (multi_threaded.rs 102-138).                      *)
(***************************************************************************)
\* py_write_record, lines 110-117: what the call returns for a resolved handle.
py_write_record_result_ErrorDropped(h) == PyOk

py_write_record_result(h) == IF h = "ok" THEN PyOk ELSE PyIOError("Io")

py_write_record_call(t, data) ==
    /\ pc[t] = "idle"
    /\ gil = NoThread
    /\ calls < MaxCalls
    /\ calls' = calls + 1
    /\ arg' = [arg EXCEPT ![t] = data]
    /\ pc' = [pc EXCEPT ![t] = "w_enq"]
    /\ gil' = AllowThreads_write_record(t)
    /\ op' = [op EXCEPT ![t] = Call("write_record", wState = "closed")]
    /\ UNCHANGED <<res, wvars>>

\* Lines 110-114: Ok(promise) => promise.wait(), which returns once the worker
\* has resolved the handle.
py_write_record_promise_NotAwaited(h) == TRUE

py_write_record_promise(h) == h \in {"ok", "err"}

\* pending_tasks (lines 140-147): the writes queued and not yet completed.
py_pending_tasks == Len(wQueue[1]) + Len(wQueue[2])

\* promise.wait() has returned.
py_write_record_wait(t) ==
    /\ pc[t] = "w_wait"
    /\ py_write_record_promise(handle[t])
    /\ res' = [res EXCEPT ![t] = py_write_record_result(handle[t])]
    /\ written' = IF py_write_record_result(handle[t]) = PyOk
                  THEN Append(written, arg[t]) ELSE written
    /\ handle' = [handle EXCEPT ![t] = "none"]
    /\ pc' = [pc EXCEPT ![t] = "ret"]
    /\ UNCHANGED <<gil, arg, op, calls, wN, wReq, wCap, wState, wCloser, wQueue, wBusy, files,
                   wFailed, wFaults>>

py_flush_call(t) ==
    /\ pc[t] = "idle"
    /\ gil = NoThread
    /\ calls < MaxCalls
    /\ calls' = calls + 1
    /\ pc' = [pc EXCEPT ![t] = "w_flush"]
    /\ gil' = AllowThreads_flush(t)
    /\ op' = [op EXCEPT ![t] = Call("flush", wState = "closed")]
    /\ UNCHANGED <<arg, res, wvars>>

py_writer_close_call(t) ==
    /\ pc[t] = "idle"
    /\ gil = NoThread
    /\ calls < MaxCalls
    /\ calls' = calls + 1
    /\ pc' = [pc EXCEPT ![t] = "w_close"]
    /\ gil' = AllowThreads_writer_close(t)
    /\ op' = [op EXCEPT ![t] = Call("close", wState = "closed")]
    /\ UNCHANGED <<arg, res, wvars>>

WInit(workers, capacities) ==
    /\ wN \in workers
    /\ wReq \in capacities
    /\ wCap = new_with_shards_capacity(wReq)
    /\ wState = "open"
    /\ wCloser = NoThread
    /\ wQueue = [w \in 1..2 |-> <<>>]
    /\ wBusy = [w \in 1..2 |-> FALSE]
    /\ wFailed = [s \in WShards |-> FALSE]
    /\ wFaults = 0
    /\ handle = [t \in PyThreads |-> "none"]
    /\ written = <<>>

(***************************************************************************)
(* create_multi_threaded_reader (shard_helpers.rs 38-68): the worker count *)
(* and the queue capacity in bytes handed to the engine.                   *)
(***************************************************************************)
EngineDefaultWorkerThreads == 2
EngineDefaultQueueBytes == 8 * 1024 * 1024

reader_config_DefaultQueue(worker_threads, queue_size_mb) ==
    [threads |-> IF worker_threads.some THEN worker_threads.v
                 ELSE EngineDefaultWorkerThreads,
     bytes |-> 8 * 1024 * 1024]

reader_config(worker_threads, queue_size_mb) ==
    CASE worker_threads.some /\ queue_size_mb.some ->
            [threads |-> worker_threads.v,
             bytes |-> queue_size_mb.v * 1024 * 1024]
      [] worker_threads.some /\ ~queue_size_mb.some ->
            [threads |-> worker_threads.v, bytes |-> 8 * 1024 * 1024]
      [] ~worker_threads.some /\ queue_size_mb.some ->
            [threads |-> EngineDefaultWorkerThreads,
             bytes |-> queue_size_mb.v * 1024 * 1024]
      [] OTHER ->
            [threads |-> EngineDefaultWorkerThreads, bytes |-> EngineDefaultQueueBytes]

\* The shard locator each constructor builds (multi_threaded.rs 192, 258, 328).
new_with_shards_locator == "dir"
new_with_shard_paths_locator == "paths"
new_with_random_shard_paths_locator_Finite == "paths"
new_with_random_shard_paths_locator == "random"

(***************************************************************************)
(* Engine: MultiThreadedReader (spec.md 3, 4.6).                           *)
(***************************************************************************)
NoPath == 0
Paths == WShards
RWorkers == 1..rN
PathOrders == {<<1, 2>>, <<2, 1>>}

\* The size in bytes of a record.
RecSize(r) == CASE r = "a" -> 512 * 1024
                [] r = "b" -> 1024 * 1024
                [] OTHER -> 0

\* An entry of a shard file that is a frame failing its check.
CorruptRecord == "x"

RecordPiece(r, p, i) == [kind |-> "Record", rec |-> r, path |-> p, idx |-> i]
ShardFinishedPiece(p) == [kind |-> "ShardFinished", path |-> p]
EofPiece == [kind |-> "EOF"]

RECURSIVE QueueBytes(_)
QueueBytes(q) ==
    IF q = <<>> THEN 0
    ELSE (IF Head(q).kind = "Record" THEN RecSize(Head(q).rec) ELSE 0) + QueueBytes(Tail(q))

EngineQueueFits(size) ==
    /\ QueueBytes(rQueue) + size <= rCap
    /\ Len(rQueue) < MaxQueue

\* MultiThreadedReader::new: the workers start with no path in hand.
EngineReaderNew(kind, cfg) ==
    /\ rState' = "open"
    /\ rKind' = kind
    /\ rCap' = cfg.bytes
    /\ rN' = cfg.threads
    /\ rOrder' \in (IF kind = "random" THEN PathOrders ELSE {<<1, 2>>})
    /\ rNextIdx' = 1
    /\ rPass' = 0
    /\ rPath' = [w \in 1..2 |-> NoPath]
    /\ rPos' = [w \in 1..2 |-> 1]
    /\ rTerm' = [w \in 1..2 |-> FALSE]
    /\ rQueue' = <<>>
    /\ rEof' = 0
    /\ delivered' = <<>>

\* A worker with no path in hand takes the next one of this pass.
EngineReaderAssign(w) ==
    /\ rState = "open"
    /\ ~rTerm[w]
    /\ rPath[w] = NoPath
    /\ rNextIdx <= Len(rOrder)
    /\ rPath' = [rPath EXCEPT ![w] = rOrder[rNextIdx]]
    /\ rPos' = [rPos EXCEPT ![w] = 1]
    /\ rNextIdx' = rNextIdx + 1
    /\ UNCHANGED <<rState, rKind, rReq, rCap, rN, rOrder, rPass, rTerm, rQueue, rEof, delivered,
                   cnt>>

\* Every path of the pass is handed out.  The randomized locator starts the
\* next pass in a fresh order; with a finite locator the worker terminates, and
\* the last worker to terminate emits EndOfStream.
EngineReaderEndOfPass(w) ==
    /\ rState = "open"
    /\ ~rTerm[w]
    /\ rPath[w] = NoPath
    /\ rNextIdx > Len(rOrder)
    /\ IF rKind = "random"
       THEN /\ rOrder' \in PathOrders
            /\ rNextIdx' = 1
            /\ rPass' = IF rPass < MaxPasses THEN rPass + 1 ELSE rPass
            /\ UNCHANGED <<rTerm, rQueue, rEof>>
       ELSE /\ rTerm' = [rTerm EXCEPT ![w] = TRUE]
            /\ IF \A v \in RWorkers \ {w} : rTerm[v]
               THEN rQueue' = Append(rQueue, EofPiece) /\ rEof' = rEof + 1
               ELSE UNCHANGED <<rQueue, rEof>>
            /\ UNCHANGED <<rOrder, rNextIdx, rPass>>
    /\ UNCHANGED <<rState, rKind, rReq, rCap, rN, rPath, rPos, delivered, cnt>>

EngineReaderPushRecord_Front(w) ==
    /\ rState = "open"
    /\ rPath[w] # NoPath
    /\ rPos[w] <= Len(files[rPath[w]])
    /\ LET r == files[rPath[w]][rPos[w]]
       IN  /\ r # CorruptRecord
           /\ EngineQueueFits(RecSize(r))
           /\ rQueue' = <<RecordPiece(r, rPath[w], rPos[w])>> \o rQueue
    /\ rPos' = [rPos EXCEPT ![w] = @ + 1]
    /\ UNCHANGED <<rState, rKind, rReq, rCap, rN, rOrder, rNextIdx, rPass, rPath, rTerm, rEof,
                   delivered, cnt>>

\* A worker decodes the next record of its path and queues it, waiting while
\* the queue has no room for it.
EngineReaderPushRecord(w) ==
    /\ rState = "open"
    /\ rPath[w] # NoPath
    /\ rPos[w] <= Len(files[rPath[w]])
    /\ LET r == files[rPath[w]][rPos[w]]
       IN  /\ r # CorruptRecord
           /\ EngineQueueFits(RecSize(r))
           /\ rQueue' = Append(rQueue, RecordPiece(r, rPath[w], rPos[w]))
    /\ rPos' = [rPos EXCEPT ![w] = @ + 1]
    /\ UNCHANGED <<rState, rKind, rReq, rCap, rN, rOrder, rNextIdx, rPass, rPath, rTerm, rEof,
                   delivered, cnt>>

\* The next frame of the path is corrupt and the policy is Error, which a
\* reader has when it is built with no corruption strategy: the worker queues
\* the error, and the stream of this shard ends.
EngineReaderPushError(w) ==
    /\ rState = "open"
    /\ rPath[w] # NoPath
    /\ rPos[w] <= Len(files[rPath[w]])
    /\ files[rPath[w]][rPos[w]] = CorruptRecord
    /\ EngineQueueFits(0)
    /\ rQueue' = Append(rQueue, [kind |-> "Err", err |-> "Corruption", path |-> rPath[w]])
    /\ rPos' = [rPos EXCEPT ![w] = Len(files[rPath[w]]) + 1]
    /\ UNCHANGED <<rState, rKind, rReq, rCap, rN, rOrder, rNextIdx, rPass, rPath, rTerm, rEof,
                   delivered, cnt>>

\* The path is exhausted: the worker queues a ShardFinished marker.
EngineReaderShardFinished(w) ==
    /\ rState = "open"
    /\ rPath[w] # NoPath
    /\ rPos[w] > Len(files[rPath[w]])
    /\ EngineQueueFits(0)
    /\ rQueue' = Append(rQueue, ShardFinishedPiece(rPath[w]))
    /\ rPath' = [rPath EXCEPT ![w] = NoPath]
    /\ UNCHANGED <<rState, rKind, rReq, rCap, rN, rOrder, rNextIdx, rPass, rPos, rTerm, rEof,
                   delivered, cnt>>

\* reader.read(): an error on a closed reader, the oldest entry of the queue,
\* EndOfStream when the queue is empty and every worker has terminated, and a
\* wait otherwise.
EngineRead ==
    IF rState # "open" THEN [kind |-> "Err", err |-> "InvalidState"]
    ELSE IF rQueue # <<>> THEN Head(rQueue)
    ELSE IF \A w \in RWorkers : rTerm[w] THEN EofPiece
    ELSE [kind |-> "Blocked"]

EngineReadQueue == IF rState = "open" /\ rQueue # <<>> THEN Tail(rQueue) ELSE rQueue

\* reader.close()
EngineReaderClose == IF rState = "open" THEN Ok ELSE Err("InvalidState")

(***************************************************************************)
(* PyMultiThreadedReader (multi_threaded.rs 183-373).                      *)
(***************************************************************************)
AllowThreads_next_record_Held(t) == t

AllowThreads_next_record(t) == NoThread
AllowThreads_reader_close(t) == NoThread

\* The constructors: new_with_shards, new_with_shard_paths and
\* new_with_random_shard_paths.
py_reader_new(kind, worker_threads, queue_size_mb) ==
    /\ rState = "none"
    /\ gil = NoThread
    /\ EngineReaderNew(kind, reader_config(worker_threads, queue_size_mb))
    /\ rReq' = queue_size_mb
    /\ calls' = 0
    /\ UNCHANGED <<gil, pc, arg, op, res, cnt>>

\* py_next_record, lines 348-362: the match on what read() returned.  loop
\* says that the call reads again.
py_next_record_match_MarkerEndsStream(piece) ==
    CASE piece.kind = "Record" -> [loop |-> FALSE, value |-> PyBytes(piece.rec)]
      [] piece.kind = "EOF" -> [loop |-> FALSE, value |-> PyNone]
      [] piece.kind = "ShardFinished" -> [loop |-> FALSE, value |-> PyNone]
      [] OTHER -> [loop |-> FALSE, value |-> PyIOError(piece.err)]

py_next_record_match_MarkerReturned(piece) ==
    CASE piece.kind = "Record" -> [loop |-> FALSE, value |-> PyBytes(piece.rec)]
      [] piece.kind = "EOF" -> [loop |-> FALSE, value |-> PyNone]
      [] piece.kind = "ShardFinished" -> [loop |-> FALSE, value |-> PyBytes("ShardFinished")]
      [] OTHER -> [loop |-> FALSE, value |-> PyIOError(piece.err)]

\* a match that reads again at EndOfStream
py_next_record_match_EofSkipped(piece) ==
    CASE piece.kind = "Record" -> [loop |-> FALSE, value |-> PyBytes(piece.rec)]
      [] piece.kind = "EOF" -> [loop |-> TRUE, value |-> NoResult]
      [] piece.kind = "ShardFinished" -> [loop |-> TRUE, value |-> NoResult]
      [] OTHER -> [loop |-> FALSE, value |-> PyIOError(piece.err)]

py_next_record_match(piece) ==
    CASE piece.kind = "Record" -> [loop |-> FALSE, value |-> PyBytes(piece.rec)]
      [] piece.kind = "EOF" -> [loop |-> FALSE, value |-> PyNone]
      [] piece.kind = "ShardFinished" -> [loop |-> TRUE, value |-> NoResult]
      [] OTHER -> [loop |-> FALSE, value |-> PyIOError(piece.err)]

py_next_record_call(t) ==
    /\ pc[t] = "idle"
    /\ gil = NoThread
    /\ rState # "none"
    /\ calls < MaxCalls
    /\ calls' = calls + 1
    /\ pc' = [pc EXCEPT ![t] = "r_read"]
    /\ gil' = AllowThreads_next_record(t)
    /\ op' = [op EXCEPT ![t] = Call("next_record", rState = "closed")]
    /\ UNCHANGED <<arg, res, rvars>>

\* One turn of the loop: read() and the match on its result.
py_next_record_read(t) ==
    /\ pc[t] = "r_read"
    /\ LET piece == EngineRead
           out == py_next_record_match(piece)
       IN  /\ piece.kind # "Blocked"
           /\ rQueue' = EngineReadQueue
           /\ pc' = [pc EXCEPT ![t] = IF out.loop THEN "r_read" ELSE "ret"]
           /\ res' = [res EXCEPT ![t] = IF out.loop THEN @ ELSE out.value]
           /\ delivered' = IF out.loop THEN delivered
                           ELSE Append(delivered, [value |-> out.value, piece |-> piece])
    /\ UNCHANGED <<gil, arg, op, calls, rState, rKind, rReq, rCap, rN, rOrder, rNextIdx, rPass,
                   rPath, rPos, rTerm, rEof, cnt>>

py_reader_close_call(t) ==
    /\ pc[t] = "idle"
    /\ gil = NoThread
    /\ rState # "none"
    /\ calls < MaxCalls
    /\ calls' = calls + 1
    /\ pc' = [pc EXCEPT ![t] = "r_close"]
    /\ gil' = AllowThreads_reader_close(t)
    /\ op' = [op EXCEPT ![t] = Call("close", rState = "closed")]
    /\ UNCHANGED <<arg, res, rvars>>

py_reader_close_step(t) ==
    /\ pc[t] = "r_close"
    /\ res' = [res EXCEPT ![t] = MapErr(EngineReaderClose)]
    /\ rState' = "closed"
    /\ pc' = [pc EXCEPT ![t] = "ret"]
    /\ op' = EngineCloseCalled(t)
    /\ UNCHANGED <<gil, arg, calls, rKind, rReq, rCap, rN, rOrder, rNextIdx, rPass, rPath, rPos,
                   rTerm, rQueue, rEof, delivered, cnt>>

(***************************************************************************)
(* count_records_with_shards and count_records_with_shard_paths            *)
(* (multi_threaded.rs 209-244, 275-312).  The scan runs without            *)
(* py.allow_threads: the calling thread keeps the interpreter lock.        *)
(***************************************************************************)
PyCount(n) == [type |-> "Count", n |-> n]

\* Lines 232-237: the match on what read() returned.  next is where the scan
\* goes: "read" again, "close" after the loop, or "ret" with an error.
count_records_match(piece, count) ==
    CASE piece.kind = "Record" -> [next |-> "read", count |-> count + 1]
      [] piece.kind = "EOF" -> [next |-> "close", count |-> count]
      [] piece.kind = "ShardFinished" -> [next |-> "read", count |-> count]
      [] OTHER -> [next |-> "ret", count |-> count]

py_count_records_call(t, kind, worker_threads, queue_size_mb) ==
    /\ pc[t] = "idle"
    /\ gil = NoThread
    /\ rState = "none"
    /\ EngineReaderNew(kind, reader_config(worker_threads, queue_size_mb))
    /\ rReq' = queue_size_mb
    /\ cnt' = [cnt EXCEPT ![t] = 0]
    /\ pc' = [pc EXCEPT ![t] = "c_read"]
    /\ gil' = t
    /\ calls' = 1
    /\ op' = [op EXCEPT ![t] = Call("count_records", FALSE)]
    /\ UNCHANGED <<arg, res>>

py_count_records_read(t) ==
    /\ pc[t] = "c_read"
    /\ LET piece == EngineRead
           out == count_records_match(piece, cnt[t])
       IN  /\ piece.kind # "Blocked"
           /\ rQueue' = EngineReadQueue
           /\ cnt' = [cnt EXCEPT ![t] = out.count]
           /\ pc' = [pc EXCEPT ![t] = CASE out.next = "read" -> "c_read"
                                        [] out.next = "close" -> "c_close"
                                        [] OTHER -> "ret"]
           /\ res' = [res EXCEPT ![t] = IF out.next = "ret" THEN PyIOError(piece.err)
                                        ELSE @]
    /\ UNCHANGED <<gil, arg, op, calls, rState, rKind, rReq, rCap, rN, rOrder, rNextIdx, rPass,
                   rPath, rPos, rTerm, rEof, delivered>>

\* Lines 241-243: reader.close()?, then Ok(count).
py_count_records_close(t) ==
    /\ pc[t] = "c_close"
    /\ res' = [res EXCEPT ![t] = IF EngineReaderClose.ok THEN PyCount(cnt[t])
                                 ELSE PyIOError(EngineReaderClose.err)]
    /\ rState' = "closed"
    /\ pc' = [pc EXCEPT ![t] = "ret"]
    /\ op' = EngineCloseCalled(t)
    /\ UNCHANGED <<gil, arg, calls, rKind, rReq, rCap, rN, rOrder, rNextIdx, rPass, rPath,
                   rPos, rTerm, rQueue, rEof, delivered, cnt>>

NoFiles == files = [s \in WShards |-> <<>>]

RInit ==
    /\ rState = "none"
    /\ rKind = "dir"
    /\ rReq = None
    /\ rCap = 0
    /\ rN = 1
    /\ rOrder = <<1, 2>>
    /\ rNextIdx = 1
    /\ rPass = 0
    /\ rPath = [w \in 1..2 |-> NoPath]
    /\ rPos = [w \in 1..2 |-> 1]
    /\ rTerm = [w \in 1..2 |-> FALSE]
    /\ rQueue = <<>>
    /\ rEof = 0
    /\ delivered = <<>>
    /\ cnt = [t \in PyThreads |-> 0]

(***************************************************************************)
(* Engine: RecordReader on a given file, with its corruption strategy      *)
(* (spec.md 4.3, 4.7).  The file is given frame by frame: a frame is a     *)
(* valid record or corrupt, and behind a corrupt frame the next frame      *)
(* boundary can be found again or cannot.                                  *)
(***************************************************************************)
PyCorruptionStrategy == {"Error", "Recover"}

ValidFrame(r) == [kind |-> "Record", bytes |-> r]
CorruptFrame(resync) == [kind |-> "Corrupt", resync |-> resync]

FrameRecords == SeqsUpTo(Byte, 1)
Frames == {ValidFrame(r) : r \in FrameRecords} \cup {CorruptFrame(b) : b \in BOOLEAN}
GivenFrames == SeqsUpTo(Frames, MaxFrames)

\* reader.next_record() at frame pos.  Error: a corrupt frame is a fatal error.
\* Recover: a corrupt frame is skipped and the reader goes on behind it; when
\* the next frame boundary cannot be found the file counts as exhausted.
RECURSIVE EngineRecordReaderRead(_, _, _)
EngineRecordReaderRead(frames, strategy, pos) ==
    IF pos > Len(frames)
    THEN [res |-> Ok, piece |-> "EOF", pos |-> pos]
    ELSE IF frames[pos].kind = "Record"
    THEN [res |-> Ok, piece |-> "Record", bytes |-> frames[pos].bytes, pos |-> pos + 1]
    ELSE IF strategy = "Error"
    THEN [res |-> Err("Corruption"), piece |-> "None", pos |-> pos]
    ELSE IF frames[pos].resync
    THEN EngineRecordReaderRead(frames, strategy, pos + 1)
    ELSE [res |-> Ok, piece |-> "EOF", pos |-> Len(frames) + 1]

\* reader.next_record() after the fatal error: no record; whether the reader
\* repeats the error or reports the end is not laid down.
EngineRecordReaderAfterFatal(pos) ==
    {[res |-> Err("Corruption"), piece |-> "None", pos |-> pos],
     [res |-> Ok, piece |-> "EOF", pos |-> pos]}

(***************************************************************************)
(* PyRecordReader on a given file (single_threaded.rs 69-121).             *)
(***************************************************************************)
\* new, lines 73-80: the strategy the reader is configured with.
PyRecordReader_new_strategy_SomeIsRecover(corruption_strategy) ==
    IF corruption_strategy.some THEN "Recover" ELSE "Error"

PyRecordReader_new_strategy_AlwaysDefault(corruption_strategy) == "Error"

PyRecordReader_new_strategy(corruption_strategy) ==
    IF corruption_strategy = Some("Recover") THEN "Recover" ELSE "Error"

\* count_records, lines 90-97: the same match, written out again.
PyRecordReader_count_records_strategy_AlwaysDefault(corruption_strategy) == "Error"

PyRecordReader_count_records_strategy(corruption_strategy) ==
    IF corruption_strategy = Some("Recover") THEN "Recover" ELSE "Error"

\* PyRecordReader(path, corruption_strategy)
PyRecordReader_new_given ==
    /\ dOpen = "no"
    /\ IF dExists
       THEN /\ dOpen' = "open"
            /\ dNewRes' = PyOk
            /\ dStrategy' = PyRecordReader_new_strategy(dArg)
       ELSE /\ dOpen' = "failed"
            /\ dNewRes' = PyIOError("Io")
            /\ dStrategy' = dStrategy
    /\ dPos' = 1
    /\ UNCHANGED <<dExists, dFrames, dArg, dFatal, dResults, dCountRes>>
    /\ UNCHANGED <<s1vars, mvars, tvars, wvars, rvars>>

\* next_record, lines 111-121.
PyRecordReader_next_record_given ==
    /\ dOpen = "open"
    /\ Len(dResults) < MaxFrames + 2
    /\ \E r \in (IF dFatal THEN EngineRecordReaderAfterFatal(dPos)
                 ELSE {EngineRecordReaderRead(dFrames, dStrategy, dPos)}) :
          /\ dPos' = r.pos
          /\ dFatal' = (dFatal \/ ~r.res.ok)
          /\ dResults' = Append(dResults, PyRecordReader_next_record_match(r))
    /\ UNCHANGED <<dExists, dFrames, dArg, dOpen, dNewRes, dStrategy, dCountRes>>
    /\ UNCHANGED <<s1vars, mvars, tvars, wvars, rvars>>

\* count_records, lines 99-108: the loop over a reader of its own.
RECURSIVE count_records_loop(_, _, _, _)
count_records_loop(frames, strategy, pos, count) ==
    LET r == EngineRecordReaderRead(frames, strategy, pos)
    IN  IF ~r.res.ok THEN PyIOError(r.res.err)
        ELSE IF r.piece = "Record" THEN count_records_loop(frames, strategy, r.pos, count + 1)
        ELSE PyCount(count)

\* PyRecordReader.count_records(path, corruption_strategy)
PyRecordReader_count_records ==
    /\ dCountRes = NoResult
    /\ dCountRes' =
          IF dExists
          THEN count_records_loop(dFrames, PyRecordReader_count_records_strategy(dArg), 1, 0)
          ELSE PyIOError("Io")
    /\ UNCHANGED <<dExists, dFrames, dArg, dOpen, dNewRes, dStrategy, dPos, dFatal, dResults>>
    /\ UNCHANGED <<s1vars, mvars, tvars, wvars, rvars>>

\* No file is given to a single-shard reader.
NoGivenFile ==
    /\ dExists = FALSE
    /\ dFrames = <<>>
    /\ dArg = None
    /\ dOpen = "no"
    /\ dNewRes = NoResult
    /\ dStrategy = "Error"
    /\ dPos = 1
    /\ dFatal = FALSE
    /\ dResults = <<>>
    /\ dCountRes = NoResult

(***************************************************************************)
(* The single-shard specification.                                         *)
(***************************************************************************)
SingleWriterInit(compressions) ==
    /\ sComp \in compressions
    /\ sBuf = <<>>
    /\ sFile = <<>>
    /\ sWClosed = FALSE
    /\ sWRes = NoResult
    /\ sWritten = <<>>
    /\ sCloseOk = FALSE
    /\ sCalls = 0
    /\ sROpen = "no"
    /\ sRPos = 1
    /\ sRRes = NoResult
    /\ sDelivered = <<>>

\* The module is loaded, and a parallel writer, where the specification has one,
\* was constructed with no compression argument.
ModuleInit ==
    /\ nArg = None
    /\ nRes = PyOk
    /\ wComp = "default"
    /\ sExit = NoCall
    /\ logLoaded = TRUE
    /\ logOn = TRUE
    /\ logLevel = "Info"
    /\ logCalls = <<>>

SingleInit(compressions) ==
    /\ SingleWriterInit(compressions)
    /\ NoGivenFile
    /\ ModuleInit

SInit ==
    /\ SingleInit({"none", "zstd"})
    /\ TInit
    /\ WInit({1}, {None})
    /\ RInit
    /\ NoFiles

SNext ==
    \/ \E data \in Records : PyRecordWriter_write_record(data)
    \/ PyRecordWriter_flush
    \/ PyRecordWriter_close
    \/ PyRecordReader_new
    \/ PyRecordReader_next_record

SpecSingle == SInit /\ [][SNext]_vars

(***************************************************************************)
(* C3: single-shard round trip.  A reader created after close has returned *)
(* success delivers a prefix of the records written, in order, and when it *)
(* reports end-of-stream it has delivered exactly the records written.     *)
(***************************************************************************)
IsPrefix(a, b) == Len(a) <= Len(b) /\ SubSeq(b, 1, Len(a)) = a

C3_SingleRoundTrip ==
    sROpen = "fresh" =>
        /\ IsPrefix(sDelivered, sWritten)
        /\ sRRes.type # "PyIOError"
        /\ (sRRes = PyNone => sDelivered = sWritten)
        /\ (sRRes.type = "Bytes" =>
                /\ sDelivered # <<>>
                /\ sRRes.bytes = sDelivered[Len(sDelivered)])

C3_Witness ==
    /\ sROpen = "fresh"
    /\ sRRes = PyNone
    /\ sDelivered = <<<<>>, <<0, 1>>>>
    /\ sWritten = sDelivered
    /\ sComp = "zstd"

(***************************************************************************)
(* The parallel writer called from two Python threads.                     *)
(***************************************************************************)
WriterInit ==
    /\ SingleInit({"none"})
    /\ TInit
    /\ WInit({1, 2}, {Some(1), Some(2)})
    /\ RInit
    /\ NoFiles

WriterNext ==
    \/ \E t \in PyThreads : py_write_record_call(t, "a") /\ UNCHANGED <<svars, rvars>>
    \/ \E t \in PyThreads : EngineWriteRecord(t) /\ UNCHANGED <<svars, rvars>>
    \/ \E t \in PyThreads : py_write_record_wait(t) /\ UNCHANGED <<svars, rvars>>
    \/ \E t \in PyThreads : py_flush_call(t) /\ UNCHANGED <<svars, rvars>>
    \/ \E t \in PyThreads : EngineWriterFlushStep(t) /\ UNCHANGED <<svars, rvars>>
    \/ \E t \in PyThreads : py_writer_close_call(t) /\ UNCHANGED <<svars, rvars>>
    \/ \E t \in PyThreads : EngineWriterCloseBegin(t) /\ UNCHANGED <<svars, rvars>>
    \/ \E t \in PyThreads : EngineWriterCloseEnd(t) /\ UNCHANGED <<svars, rvars>>
    \/ \E t \in PyThreads : Return(t) /\ UNCHANGED <<svars, wvars, rvars>>
    \/ \E t \in PyThreads : Yield(t) /\ UNCHANGED <<svars, wvars, rvars>>
    \/ \E w \in WWorkers : EngineWriterWorkerStart(w) /\ UNCHANGED <<svars, rvars>>
    \/ \E w \in WWorkers : EngineWriterWorkerFinish(w) /\ UNCHANGED <<svars, rvars>>

SpecWriter == WriterInit /\ [][WriterNext]_vars

(***************************************************************************)
(* C8: writer backpressure.  A worker of a parallel writer built with      *)
(* task_queue_capacity C never holds more than C write requests that are   *)
(* queued and not yet completed.  A write_record call that finds every     *)
(* queue full on an open writer can take no step until a worker completes  *)
(* a request, and no call returns an error for that: an error a call       *)
(* returns is the invalid state of a writer that close has begun to close, *)
(* or the failure of a shard file.                                         *)
(***************************************************************************)
InFlight(w) == Len(wQueue[w])

C8_WriterBackpressure ==
    /\ wReq.some => \A w \in WWorkers : InFlight(w) <= wReq.v
    /\ \A t \in PyThreads :
          /\ (/\ pc[t] = "w_enq"
              /\ wState = "open"
              /\ wReq.some
              /\ \A w \in WWorkers : InFlight(w) >= wReq.v)
                 => ~ENABLED EngineWriteRecord(t)
          /\ res[t].type = "PyIOError" =>
                \/ res[t].msg = "InvalidState" /\ wState # "open"
                \/ res[t].msg = "Io" /\ wFaults > 0

C8_Witness ==
    /\ wReq = Some(1)
    /\ wN = 1
    /\ wState = "open"
    /\ InFlight(1) = 1
    /\ pc[1] = "w_wait"
    /\ pc[2] = "w_enq"
    /\ written = <<"a">>

(***************************************************************************)
(* Write, close, read back: one Python thread writes records through a     *)
(* parallel writer over two shards, closes it, opens a parallel reader on  *)
(* the same directory and prefix and reads to the end.                     *)
(***************************************************************************)
Init ==
    /\ SingleInit({"none"})
    /\ TInit
    /\ WInit({1, 2}, {Some(1)})
    /\ RInit
    /\ NoFiles

PipelineOpenReader ==
    /\ wState = "closed"
    /\ \A t \in PyThreads : pc[t] = "idle"
    /\ \E threads \in {Some(1), Some(2)} :
          py_reader_new(new_with_shards_locator, threads, Some(1))
    /\ UNCHANGED <<svars, wvars>>

Next ==
    \/ /\ rState = "none"
       /\ \E data \in MRecords : py_write_record_call(1, data)
       /\ UNCHANGED <<svars, rvars>>
    \/ EngineWriteRecord(1) /\ UNCHANGED <<svars, rvars>>
    \/ py_write_record_wait(1) /\ UNCHANGED <<svars, rvars>>
    \/ rState = "none" /\ py_writer_close_call(1) /\ UNCHANGED <<svars, rvars>>
    \/ EngineWriterCloseBegin(1) /\ UNCHANGED <<svars, rvars>>
    \/ EngineWriterCloseEnd(1) /\ UNCHANGED <<svars, rvars>>
    \/ \E w \in WWorkers : EngineWriterWorkerStart(w) /\ UNCHANGED <<svars, rvars>>
    \/ \E w \in WWorkers : EngineWriterWorkerFinish(w) /\ UNCHANGED <<svars, rvars>>
    \/ PipelineOpenReader
    \/ \E w \in RWorkers : EngineReaderAssign(w) /\ UNCHANGED <<svars, tvars, wvars>>
    \/ \E w \in RWorkers : EngineReaderPushRecord(w) /\ UNCHANGED <<svars, tvars, wvars>>
    \/ \E w \in RWorkers : EngineReaderShardFinished(w) /\ UNCHANGED <<svars, tvars, wvars>>
    \/ \E w \in RWorkers : EngineReaderEndOfPass(w) /\ UNCHANGED <<svars, tvars, wvars>>
    \/ py_next_record_call(1) /\ UNCHANGED <<svars, wvars>>
    \/ py_next_record_read(1) /\ UNCHANGED <<svars, wvars>>
    \/ Return(1) /\ UNCHANGED <<svars, wvars, rvars>>
    \/ Yield(1) /\ UNCHANGED <<svars, wvars, rvars>>

Spec == Init /\ [][Next]_vars

CountIn(seq, x) == Cardinality({i \in 1..Len(seq) : seq[i] = x})

\* The entries of delivered that are records, and those that are end-of-stream.
DeliveredRecords == {i \in 1..Len(delivered) : delivered[i].value.type = "Bytes"}
DeliveredEnds == {i \in 1..Len(delivered) : delivered[i].value = PyNone}
DeliveredCount(r) ==
    Cardinality({i \in DeliveredRecords : delivered[i].value.bytes = r})

(***************************************************************************)
(* C1: sharded round trip.  The records next_record returns are never more *)
(* than the records whose write_record returned success, value by value,   *)
(* and once next_record has returned end-of-stream they are exactly those: *)
(* the two multisets are equal.                                            *)
(***************************************************************************)
C1_ShardedRoundTrip ==
    rState # "none" =>
        /\ \A r \in MRecords : DeliveredCount(r) <= CountIn(written, r)
        /\ \A i \in DeliveredRecords : delivered[i].value.bytes \in MRecords
        /\ (DeliveredEnds # {} =>
               \A r \in MRecords : DeliveredCount(r) = CountIn(written, r))

C1_Witness ==
    /\ DeliveredEnds # {}
    /\ written = <<"a", "a">>
    /\ DeliveredCount("a") = 2
    /\ Len(files[1]) = 2
    /\ wFaults = 1

(***************************************************************************)
(* C2: per-shard order.  Two records of the same shard file are returned   *)
(* by next_record in the order in which they stand in the file, and each   *)
(* is the record that stands there.                                        *)
(***************************************************************************)
C2_PerShardOrder ==
    /\ \A i \in DeliveredRecords :
          LET e == delivered[i].piece
          IN  /\ e.idx \in 1..Len(files[e.path])
              /\ delivered[i].value.bytes = files[e.path][e.idx]
    /\ \A i, j \in DeliveredRecords :
          (i < j /\ delivered[i].piece.path = delivered[j].piece.path)
              => delivered[i].piece.idx < delivered[j].piece.idx

C2_Witness ==
    /\ Len(delivered) = 3
    /\ DeliveredRecords = {1, 2, 3}
    /\ delivered[1].piece.path = 1
    /\ delivered[2].piece.path = 2
    /\ delivered[3].piece.path = 1
    /\ files[1] = <<"a", "b">>

(***************************************************************************)
(* A parallel reader over a finite locator, given shard files of any       *)
(* content, read by next_record or scanned by count_records_with_*.        *)
(***************************************************************************)
GivenFiles == [Paths -> SeqsUpTo(MRecords, MaxFileLen)]

ReaderInit ==
    /\ SingleInit({"none"})
    /\ TInit
    /\ WInit({1}, {None})
    /\ RInit
    /\ files \in GivenFiles

ReaderNext ==
    \/ /\ \E kind \in {new_with_shards_locator, new_with_shard_paths_locator},
             threads \in {Some(1), Some(2)}, queue_mb \in {Some(0), Some(1), None} :
             py_reader_new(kind, threads, queue_mb)
       /\ UNCHANGED <<svars, wvars>>
    \/ /\ \E kind \in {new_with_shards_locator, new_with_shard_paths_locator},
             threads \in {Some(1), Some(2)}, queue_mb \in {Some(1)} :
             py_count_records_call(1, kind, threads, queue_mb)
       /\ UNCHANGED <<svars, wvars>>
    \/ py_count_records_read(1) /\ UNCHANGED <<svars, wvars>>
    \/ py_count_records_close(1) /\ UNCHANGED <<svars, wvars>>
    \/ \E w \in RWorkers : EngineReaderAssign(w) /\ UNCHANGED <<svars, tvars, wvars>>
    \/ \E w \in RWorkers : EngineReaderPushRecord(w) /\ UNCHANGED <<svars, tvars, wvars>>
    \/ \E w \in RWorkers : EngineReaderShardFinished(w) /\ UNCHANGED <<svars, tvars, wvars>>
    \/ \E w \in RWorkers : EngineReaderEndOfPass(w) /\ UNCHANGED <<svars, tvars, wvars>>
    \/ py_next_record_call(1) /\ UNCHANGED <<svars, wvars>>
    \/ py_next_record_read(1) /\ UNCHANGED <<svars, wvars>>
    \/ Return(1) /\ UNCHANGED <<svars, wvars, rvars>>
    \/ Yield(1) /\ UNCHANGED <<svars, wvars, rvars>>

SpecReader == ReaderInit /\ [][ReaderNext]_vars

TotalRecords == Len(files[1]) + Len(files[2])

(***************************************************************************)
(* C4: ShardFinished is never visible.  Whatever next_record returns is a  *)
(* record that read() yielded, end-of-stream or an error, never a          *)
(* ShardFinished marker; and a count_records_with_* scan that returns a    *)
(* count returns the number of records of the shard files, the markers it  *)
(* read not counted.                                                       *)
(***************************************************************************)
C4_MarkerNeverVisible ==
    /\ \A i \in 1..Len(delivered) :
          /\ delivered[i].piece.kind # "ShardFinished"
          /\ delivered[i].value.type \in {"Bytes", "None", "PyIOError"}
          /\ delivered[i].value.type = "Bytes" =>
                /\ delivered[i].piece.kind = "Record"
                /\ delivered[i].value.bytes = delivered[i].piece.rec
    /\ \A t \in PyThreads :
          /\ res[t].type \in {"NoResult", "Bytes", "None", "PyIOError", "Ok", "Count"}
          /\ res[t].type = "Bytes" => res[t].bytes \in MRecords
          /\ res[t].type = "Count" => res[t].n = TotalRecords
          /\ cnt[t] <= TotalRecords

C4_Witness ==
    /\ delivered # <<>>
    /\ delivered[Len(delivered)].value.type = "Bytes"
    /\ delivered[Len(delivered)].piece.path = 2
    /\ files[1] = <<>>
    /\ rN = 1
    /\ rQueue = <<>>

(***************************************************************************)
(* C5: end-of-stream of a finite locator.  EndOfStream is emitted at most  *)
(* once, and when next_record has returned end-of-stream it was emitted,   *)
(* every worker had terminated and every record of every shard file had    *)
(* been returned before.                                                   *)
(***************************************************************************)
C5_EndOfStreamOnce ==
    rKind # "random" =>
        /\ rEof <= 1
        /\ \A i \in DeliveredEnds :
              /\ rEof = 1
              /\ \A w \in RWorkers : rTerm[w]
              /\ Cardinality({j \in DeliveredRecords : j < i}) = TotalRecords

C5_Witness ==
    /\ rKind = "paths"
    /\ Cardinality(DeliveredEnds) = 1
    /\ Len(delivered) = 4
    /\ rN = 2
    /\ Len(files[1]) = 2

(***************************************************************************)
(* C7: reader backpressure.  The records held in the shared queue never    *)
(* take more bytes than the capacity the reader was constructed with:      *)
(* queue_size_mb megabytes, or 8 MB when the argument is absent.           *)
(***************************************************************************)
RequestedBytes == IF rReq.some THEN rReq.v * 1024 * 1024 ELSE 8 * 1024 * 1024

C7_ReaderBackpressure ==
    rState # "none" => QueueBytes(rQueue) <= RequestedBytes

C7_Witness ==
    /\ rState = "open"
    /\ rReq = Some(1)
    /\ QueueBytes(rQueue) = RequestedBytes
    /\ Len(rQueue) = 2
    /\ \E w \in RWorkers :
          /\ rPath[w] # NoPath
          /\ rPos[w] <= Len(files[rPath[w]])
          /\ RecSize(files[rPath[w]][rPos[w]]) > 0

(***************************************************************************)
(* A parallel reader built by new_with_random_shard_paths over two shard   *)
(* paths, read by next_record and in the end closed.                       *)
(***************************************************************************)
RandomInit ==
    /\ SingleInit({"none"})
    /\ TInit
    /\ WInit({1}, {None})
    /\ RInit
    /\ files \in [Paths -> SeqsUpTo({"a"}, MaxFileLen)]

RandomNext ==
    \/ /\ \E threads \in {Some(1), Some(2)} :
             py_reader_new(new_with_random_shard_paths_locator, threads, Some(1))
       /\ UNCHANGED <<svars, wvars>>
    \/ \E w \in RWorkers : EngineReaderAssign(w) /\ UNCHANGED <<svars, tvars, wvars>>
    \/ \E w \in RWorkers : EngineReaderPushRecord(w) /\ UNCHANGED <<svars, tvars, wvars>>
    \/ \E w \in RWorkers : EngineReaderShardFinished(w) /\ UNCHANGED <<svars, tvars, wvars>>
    \/ \E w \in RWorkers : EngineReaderEndOfPass(w) /\ UNCHANGED <<svars, tvars, wvars>>
    \/ py_next_record_call(1) /\ UNCHANGED <<svars, wvars>>
    \/ py_next_record_read(1) /\ UNCHANGED <<svars, wvars>>
    \/ py_reader_close_call(1) /\ UNCHANGED <<svars, wvars>>
    \/ py_reader_close_step(1) /\ UNCHANGED <<svars, wvars>>
    \/ Return(1) /\ UNCHANGED <<svars, wvars, rvars>>
    \/ Yield(1) /\ UNCHANGED <<svars, wvars, rvars>>

SpecRandom == RandomInit /\ [][RandomNext]_vars

(***************************************************************************)
(* C6: the randomized-repeating reader never ends.  A reader built by      *)
(* new_with_random_shard_paths emits no EndOfStream and next_record never  *)
(* returns end-of-stream; no worker terminates while the reader is open,   *)
(* and a worker with no path in hand can always take one or start the next *)
(* pass.  (SpecRandom builds every reader with that constructor.)          *)
(***************************************************************************)
C6_RandomNeverEnds ==
    rState # "none" =>
        /\ rEof = 0
        /\ DeliveredEnds = {}
        /\ \A t \in PyThreads : res[t] # PyNone
        /\ \A w \in RWorkers : ~rTerm[w]
        /\ rState = "open" =>
              \A w \in RWorkers :
                 rPath[w] = NoPath => ENABLED (EngineReaderAssign(w) \/ EngineReaderEndOfPass(w))

C6_Witness ==
    /\ rState = "open"
    /\ rPass >= 1
    /\ \E i, j \in DeliveredRecords :
          /\ i < j
          /\ delivered[i].piece.path = delivered[j].piece.path
          /\ delivered[i].piece.idx = delivered[j].piece.idx

(***************************************************************************)
(* Operations on closed objects.  A program uses one object: a single-     *)
(* shard writer, a parallel writer called from two Python threads, or a    *)
(* parallel reader over two shard paths called from two Python threads.    *)
(***************************************************************************)
UsesSingleWriter == calls = 0 /\ rState = "none"
UsesParallelWriter == sCalls = 0 /\ rState = "none" /\ (calls = 0 => NoFiles)
UsesParallelReader == sCalls = 0 /\ (rState = "none" => calls = 0)

AfterCloseInit ==
    /\ SingleInit({"none"})
    /\ TInit
    /\ WInit({1}, {Some(1)})
    /\ RInit
    /\ files \in {[s \in WShards |-> <<>>], [s \in WShards |-> <<"a">>]}

AfterCloseNext ==
    \/ /\ UsesSingleWriter
       /\ \E data \in Records : PyRecordWriter_write_record(data)
    \/ UsesSingleWriter /\ PyRecordWriter_flush
    \/ UsesSingleWriter /\ PyRecordWriter_close
    \/ /\ UsesParallelWriter
       /\ \E t \in PyThreads : py_write_record_call(t, "a")
       /\ UNCHANGED <<svars, rvars>>
    \/ \E t \in PyThreads : EngineWriteRecord(t) /\ UNCHANGED <<svars, rvars>>
    \/ \E t \in PyThreads : py_write_record_wait(t) /\ UNCHANGED <<svars, rvars>>
    \/ /\ UsesParallelWriter
       /\ \E t \in PyThreads : py_flush_call(t)
       /\ UNCHANGED <<svars, rvars>>
    \/ \E t \in PyThreads : EngineWriterFlushStep(t) /\ UNCHANGED <<svars, rvars>>
    \/ /\ UsesParallelWriter
       /\ \E t \in PyThreads : py_writer_close_call(t)
       /\ UNCHANGED <<svars, rvars>>
    \/ \E t \in PyThreads : EngineWriterCloseBegin(t) /\ UNCHANGED <<svars, rvars>>
    \/ \E t \in PyThreads : EngineWriterCloseEnd(t) /\ UNCHANGED <<svars, rvars>>
    \/ \E w \in WWorkers : EngineWriterWorkerStart(w) /\ UNCHANGED <<svars, rvars>>
    \/ \E w \in WWorkers : EngineWriterWorkerFinish(w) /\ UNCHANGED <<svars, rvars>>
    \/ /\ UsesParallelReader
       /\ \E threads \in {Some(1), Some(2)} :
             py_reader_new(new_with_shard_paths_locator, threads, Some(1))
       /\ UNCHANGED <<svars, wvars>>
    \/ \E w \in RWorkers : EngineReaderAssign(w) /\ UNCHANGED <<svars, tvars, wvars>>
    \/ \E w \in RWorkers : EngineReaderPushRecord(w) /\ UNCHANGED <<svars, tvars, wvars>>
    \/ \E w \in RWorkers : EngineReaderShardFinished(w) /\ UNCHANGED <<svars, tvars, wvars>>
    \/ \E w \in RWorkers : EngineReaderEndOfPass(w) /\ UNCHANGED <<svars, tvars, wvars>>
    \/ \E t \in PyThreads : py_next_record_call(t) /\ UNCHANGED <<svars, wvars>>
    \/ \E t \in PyThreads : py_next_record_read(t) /\ UNCHANGED <<svars, wvars>>
    \/ \E t \in PyThreads : py_reader_close_call(t) /\ UNCHANGED <<svars, wvars>>
    \/ \E t \in PyThreads : py_reader_close_step(t) /\ UNCHANGED <<svars, wvars>>
    \/ \E t \in PyThreads : Return(t) /\ UNCHANGED <<svars, wvars, rvars>>
    \/ \E t \in PyThreads : Yield(t) /\ UNCHANGED <<svars, wvars, rvars>>

SpecAfterClose == AfterCloseInit /\ [][AfterCloseNext]_vars

(***************************************************************************)
(* C9: operations on a closed object.  A write_record, flush or            *)
(* next_record call begun after close has closed the object returns the    *)
(* invalid-state error and nothing else: a write_record of a closed        *)
(* parallel writer queues no request, a next_record of a closed parallel   *)
(* reader takes nothing from the queue, and a call of a single-shard       *)
(* writer whose close has returned success leaves the buffer, the file and *)
(* the records written as they were.                                       *)
(***************************************************************************)
C9_ClosedIsInvalid ==
    /\ [](\A t \in PyThreads :
             (op[t].late /\ op[t].name \in {"write_record", "flush", "next_record"}) =>
                 /\ pc[t] \in {"w_enq", "w_flush", "r_read", "ret", "done", "idle"}
                 /\ handle[t] = "none"
                 /\ pc[t] \in {"ret", "done", "idle"} => res[t] = PyIOError("InvalidState"))
    /\ [][(\A t \in PyThreads :
              (op[t].late /\ op[t].name = "next_record" /\ pc[t] = "r_read")
                  => (pc'[t] \in {"r_read", "ret"} /\ rQueue' = rQueue))
          /\ ((sCloseOk /\ sCalls' # sCalls) =>
                 /\ sWRes' = PyIOError("InvalidState")
                 /\ sBuf' = sBuf
                 /\ sFile' = sFile
                 /\ sWritten' = sWritten)]_vars

C9_Witness ==
    /\ wState = "closed"
    /\ written = <<"a">>
    /\ op[1] = Call("write_record", TRUE)
    /\ pc[1] = "done"
    /\ res[1] = PyIOError("InvalidState")
    /\ op[2].name = "close"
    /\ ~op[2].late
    /\ res[2] = PyOk

(***************************************************************************)
(* close while calls are in progress: two Python threads call             *)
(* write_record on a parallel writer, or next_record on a parallel reader, *)
(* and the second of them calls close.  When the Python code of a thread   *)
(* reaches obj.close(), the thread needs the interpreter lock to enter     *)
(* py_close, and gets it when no thread holds it.                          *)
(***************************************************************************)
py_close_requested(t) ==
    /\ pc[t] = "idle"
    /\ calls < MaxCalls
    /\ calls' = calls + 1
    /\ pc' = [pc EXCEPT ![t] = "close_req"]
    /\ op' = [op EXCEPT ![t] = Call("close", wState = "closed" \/ rState = "closed")]
    /\ UNCHANGED <<gil, arg, res>>

py_writer_close_enter(t) ==
    /\ pc[t] = "close_req"
    /\ gil = NoThread
    /\ rState = "none"
    /\ pc' = [pc EXCEPT ![t] = "w_close"]
    /\ gil' = AllowThreads_writer_close(t)
    /\ UNCHANGED <<arg, op, res, calls, wvars>>

py_reader_close_enter(t) ==
    /\ pc[t] = "close_req"
    /\ gil = NoThread
    /\ rState # "none"
    /\ pc' = [pc EXCEPT ![t] = "r_close"]
    /\ gil' = AllowThreads_reader_close(t)
    /\ UNCHANGED <<arg, op, res, calls, rvars>>

ConcurrentCloseInit ==
    /\ SingleInit({"none"})
    /\ TInit
    /\ WInit({1}, {Some(1)})
    /\ RInit
    /\ files \in {[s \in WShards |-> <<>>], [s \in WShards |-> <<"a">>]}

ConcurrentCloseNext ==
    \/ /\ UsesParallelWriter
       /\ \E t \in PyThreads : py_write_record_call(t, "a")
       /\ UNCHANGED <<svars, rvars>>
    \/ \E t \in PyThreads : EngineWriteRecord(t) /\ UNCHANGED <<svars, rvars>>
    \/ \E t \in PyThreads : py_write_record_wait(t) /\ UNCHANGED <<svars, rvars>>
    \/ /\ rState = "none" => UsesParallelWriter
       /\ py_close_requested(2)
       /\ UNCHANGED <<svars, wvars, rvars>>
    \/ \E t \in PyThreads : py_writer_close_enter(t) /\ UNCHANGED <<svars, rvars>>
    \/ \E t \in PyThreads : EngineWriterCloseBegin(t) /\ UNCHANGED <<svars, rvars>>
    \/ \E t \in PyThreads : EngineWriterCloseEnd(t) /\ UNCHANGED <<svars, rvars>>
    \/ \E w \in WWorkers : EngineWriterWorkerStart(w) /\ UNCHANGED <<svars, rvars>>
    \/ \E w \in WWorkers : EngineWriterWorkerFinish(w) /\ UNCHANGED <<svars, rvars>>
    \/ /\ UsesParallelReader
       /\ \E kind \in {new_with_shard_paths_locator, new_with_random_shard_paths_locator} :
             py_reader_new(kind, Some(1), Some(1))
       /\ UNCHANGED <<svars, wvars>>
    \/ \E w \in RWorkers : EngineReaderAssign(w) /\ UNCHANGED <<svars, tvars, wvars>>
    \/ \E w \in RWorkers : EngineReaderPushRecord(w) /\ UNCHANGED <<svars, tvars, wvars>>
    \/ \E w \in RWorkers : EngineReaderShardFinished(w) /\ UNCHANGED <<svars, tvars, wvars>>
    \/ \E w \in RWorkers : EngineReaderEndOfPass(w) /\ UNCHANGED <<svars, tvars, wvars>>
    \/ \E t \in PyThreads : py_next_record_call(t) /\ UNCHANGED <<svars, wvars>>
    \/ \E t \in PyThreads : py_next_record_read(t) /\ UNCHANGED <<svars, wvars>>
    \/ \E t \in PyThreads : py_reader_close_enter(t) /\ UNCHANGED <<svars, wvars>>
    \/ \E t \in PyThreads : py_reader_close_step(t) /\ UNCHANGED <<svars, wvars>>
    \/ \E t \in PyThreads : Return(t) /\ UNCHANGED <<svars, wvars, rvars>>
    \/ \E t \in PyThreads : Yield(t) /\ UNCHANGED <<svars, wvars, rvars>>

\* What the operating system and the interpreter guarantee: a thread that can
\* go on with the call it is in does so, and so does a worker of the engine.
\* That a thread begins a call is up to the program.
ThreadGoesOn(t) ==
    \/ EngineWriteRecord(t) /\ UNCHANGED <<svars, rvars>>
    \/ py_write_record_wait(t) /\ UNCHANGED <<svars, rvars>>
    \/ py_writer_close_enter(t) /\ UNCHANGED <<svars, rvars>>
    \/ EngineWriterCloseBegin(t) /\ UNCHANGED <<svars, rvars>>
    \/ EngineWriterCloseEnd(t) /\ UNCHANGED <<svars, rvars>>
    \/ py_next_record_read(t) /\ UNCHANGED <<svars, wvars>>
    \/ py_reader_close_enter(t) /\ UNCHANGED <<svars, wvars>>
    \/ py_reader_close_step(t) /\ UNCHANGED <<svars, wvars>>
    \/ Return(t) /\ UNCHANGED <<svars, wvars, rvars>>
    \/ Yield(t) /\ UNCHANGED <<svars, wvars, rvars>>

WriterWorkerGoesOn(w) ==
    /\ w \in WWorkers
    /\ \/ EngineWriterWorkerStart(w) /\ UNCHANGED <<svars, rvars>>
       \/ EngineWriterWorkerFinish(w) /\ UNCHANGED <<svars, rvars>>

ReaderWorkerGoesOn(w) ==
    /\ w \in RWorkers
    /\ \/ EngineReaderAssign(w) /\ UNCHANGED <<svars, tvars, wvars>>
       \/ EngineReaderPushRecord(w) /\ UNCHANGED <<svars, tvars, wvars>>
       \/ EngineReaderShardFinished(w) /\ UNCHANGED <<svars, tvars, wvars>>
       \/ EngineReaderEndOfPass(w) /\ UNCHANGED <<svars, tvars, wvars>>

SpecConcurrentClose ==
    /\ ConcurrentCloseInit
    /\ [][ConcurrentCloseNext]_vars
    /\ \A t \in PyThreads : WF_vars(ThreadGoesOn(t))
    /\ \A w \in {1, 2} : WF_vars(WriterWorkerGoesOn(w))
    /\ \A w \in {1, 2} : WF_vars(ReaderWorkerGoesOn(w))

GivenInit ==
    /\ SingleWriterInit({"none"})
    /\ TInit
    /\ WInit({1}, {None})
    /\ RInit
    /\ NoFiles
    /\ dExists \in BOOLEAN
    /\ dFrames \in (IF dExists THEN GivenFrames ELSE {<<>>})
    /\ dArg \in {None} \cup {Some(c) : c \in PyCorruptionStrategy}
    /\ dOpen = "no"
    /\ dNewRes = NoResult
    /\ dStrategy = "Error"
    /\ dPos = 1
    /\ dFatal = FALSE
    /\ dResults = <<>>
    /\ dCountRes = NoResult
    /\ ModuleInit

GivenNext ==
    \/ PyRecordReader_new_given
    \/ PyRecordReader_next_record_given
    \/ PyRecordReader_count_records

SpecGiven == GivenInit /\ [][GivenNext]_vars

\* The index of the first corrupt frame, and of the first corrupt frame behind
\* which the frame boundary cannot be found; Len + 1 when there is none.
FirstCorrupt(frames) ==
    LET bad == {i \in 1..Len(frames) : frames[i].kind = "Corrupt"}
    IN  IF bad = {} THEN Len(frames) + 1 ELSE CHOOSE i \in bad : \A j \in bad : i <= j

FirstLost(frames) ==
    LET bad == {i \in 1..Len(frames) : frames[i].kind = "Corrupt" /\ ~frames[i].resync}
    IN  IF bad = {} THEN Len(frames) + 1 ELSE CHOOSE i \in bad : \A j \in bad : i <= j

IsRecordFrame(f) == f.kind = "Record"
ValidFramesOf(frames) == SelectSeq(frames, IsRecordFrame)

(***************************************************************************)
(* C11: Error policy.  A reader built with corruption_strategy absent or   *)
(* Error on a file whose first corrupt frame is frame k returns the k - 1  *)
(* records before it, then the corruption error, and no record from any    *)
(* later call, whatever frames follow; on a file with no corrupt frame it  *)
(* returns every record and then end-of-stream.                            *)
(***************************************************************************)
C11_ErrorPolicy ==
    (dOpen = "open" /\ dArg # Some("Recover")) =>
        LET k == FirstCorrupt(dFrames)
        IN  \A i \in 1..Len(dResults) :
               /\ i < k => dResults[i] = PyBytes(dFrames[i].bytes)
               /\ (i = k /\ k <= Len(dFrames)) => dResults[i] = PyIOError("Corruption")
               /\ (i >= k /\ k > Len(dFrames)) => dResults[i] = PyNone
               /\ i > k => dResults[i].type # "Bytes"

C11_Witness ==
    /\ dArg = Some("Error")
    /\ dFrames = <<ValidFrame(<<1>>), CorruptFrame(TRUE), ValidFrame(<<0>>)>>
    /\ Len(dResults) = 4
    /\ dResults[1] = PyBytes(<<1>>)
    /\ dResults[2] = PyIOError("Corruption")

C13_CountRecords ==
    dCountRes # NoResult =>
        /\ dOpen = "failed" => dCountRes = dNewRes
        /\ dOpen = "open" =>
              /\ dCountRes.type \in {"Count", "PyIOError"}
              /\ \A i \in 1..Len(dResults) :
                    /\ dResults[i].type = "Bytes" =>
                          (dCountRes.type = "Count" => dCountRes.n >= i)
                    /\ (dResults[i].type # "Bytes"
                        /\ \A j \in 1..(i - 1) : dResults[j].type = "Bytes") =>
                          dCountRes = IF dResults[i] = PyNone THEN PyCount(i - 1)
                                      ELSE dResults[i]

C13_Witness ==
    /\ dFrames = <<ValidFrame(<<1>>), ValidFrame(<<>>), ValidFrame(<<0>>)>>
    /\ dCountRes = PyCount(3)
    /\ Len(dResults) = 4
    /\ dResults[4] = PyNone


(***************************************************************************)
(* PyMultiThreadedWriter.new_with_shards (multi_threaded.rs 28-100).  The  *)
(* compression argument is matched first (58-65); only a recognised one    *)
(* reaches MultiThreadedWriter::new (96-97), which can fail on its own.    *)
(***************************************************************************)
CompressionArgs ==
    {None, Some("none"), Some("zstd"), Some("gzip"), Some("ZSTD"), Some("")}

UnsupportedCompression(other) ==
    [type |-> "PyIOError", msg |-> "Unsupported compression type", value |-> other]

\* a match whose last arm falls back to the default configuration
new_with_shards_compression_Fallback(compression) ==
    IF compression = Some("zstd") THEN [ok |-> TRUE, comp |-> "zstd"]
    ELSE IF compression = Some("none") THEN [ok |-> TRUE, comp |-> "none"]
    ELSE [ok |-> TRUE, comp |-> "default"]

new_with_shards_compression(compression) ==
    IF compression = Some("zstd") THEN [ok |-> TRUE, comp |-> "zstd"]
    ELSE IF compression = Some("none") THEN [ok |-> TRUE, comp |-> "none"]
    ELSE IF compression.some
         THEN [ok |-> FALSE, err |-> UnsupportedCompression(compression.v)]
    ELSE [ok |-> TRUE, comp |-> "default"]

\* MultiThreadedWriter::new: the writer with its workers, or an error
EngineWriterNew == {Ok, Err("Io")}

py_new_with_shards(compression) ==
    /\ wState = "none"
    /\ nRes = NoResult
    /\ gil = NoThread
    /\ nArg' = compression
    /\ LET cfg == new_with_shards_compression(compression) IN
         IF ~cfg.ok
         THEN /\ nRes' = cfg.err
              /\ UNCHANGED <<wComp, wState>>
         ELSE \E r \in EngineWriterNew :
                 IF r.ok
                 THEN /\ wState' = "open"
                      /\ wComp' = cfg.comp
                      /\ nRes' = PyOk
                 ELSE /\ nRes' = MapErr(r)
                      /\ UNCHANGED <<wComp, wState>>
    /\ UNCHANGED <<s1vars, dvars, sExit, logLoaded, logOn, logLevel, logCalls>>
    /\ UNCHANGED <<tvars, rvars>>
    /\ UNCHANGED <<wN, wReq, wCap, wCloser, wQueue, wBusy, files, wFailed,
                   wFaults, handle, written>>

(***************************************************************************)
(* The construction specification: no parallel writer exists at first;     *)
(* new_with_shards is called once with some compression argument, and one  *)
(* Python thread uses the writer it returned, if it returned one.          *)
(***************************************************************************)
ConstructInit ==
    /\ SingleWriterInit({"none"})
    /\ NoGivenFile
    /\ nArg = None
    /\ nRes = NoResult
    /\ wComp = "unset"
    /\ sExit = NoCall
    /\ logLoaded = TRUE
    /\ logOn = TRUE
    /\ logLevel = "Info"
    /\ logCalls = <<>>
    /\ TInit
    /\ wN \in {1, 2}
    /\ wReq \in {None, Some(1)}
    /\ wCap = new_with_shards_capacity(wReq)
    /\ wState = "none"
    /\ wCloser = NoThread
    /\ wQueue = [w \in 1..2 |-> <<>>]
    /\ wBusy = [w \in 1..2 |-> FALSE]
    /\ wFailed = [s \in WShards |-> FALSE]
    /\ wFaults = 0
    /\ handle = [t \in PyThreads |-> "none"]
    /\ written = <<>>
    /\ RInit
    /\ NoFiles

ConstructNext ==
    \/ \E c \in CompressionArgs : py_new_with_shards(c)
    \/ wState # "none" /\ py_write_record_call(1, "a") /\ UNCHANGED <<svars, rvars>>
    \/ EngineWriteRecord(1) /\ UNCHANGED <<svars, rvars>>
    \/ py_write_record_wait(1) /\ UNCHANGED <<svars, rvars>>
    \/ wState # "none" /\ py_flush_call(1) /\ UNCHANGED <<svars, rvars>>
    \/ EngineWriterFlushStep(1) /\ UNCHANGED <<svars, rvars>>
    \/ wState # "none" /\ py_writer_close_call(1) /\ UNCHANGED <<svars, rvars>>
    \/ EngineWriterCloseBegin(1) /\ UNCHANGED <<svars, rvars>>
    \/ EngineWriterCloseEnd(1) /\ UNCHANGED <<svars, rvars>>
    \/ Return(1) /\ UNCHANGED <<svars, wvars, rvars>>
    \/ \E w \in WWorkers : EngineWriterWorkerStart(w) /\ UNCHANGED <<svars, rvars>>
    \/ \E w \in WWorkers : EngineWriterWorkerFinish(w) /\ UNCHANGED <<svars, rvars>>

SpecConstruct == ConstructInit /\ [][ConstructNext]_vars

(***************************************************************************)
(* C14: a compression argument other than "none", "zstd" or an absent one  *)
(* makes new_with_shards return an error that names the rejected value,    *)
(* and no parallel writer is created: no worker exists, no shard file is   *)
(* touched and no default codec stands in.  A writer that exists was built *)
(* from "none", "zstd" or an absent argument, with the codec asked for.    *)
(***************************************************************************)
RecognisedCompression == {None, Some("none"), Some("zstd")}

NoWriterCreated ==
    /\ wState = "none"
    /\ \A w \in 1..2 : wQueue[w] = <<>> /\ ~wBusy[w]
    /\ files = [s \in WShards |-> <<>>]
    /\ written = <<>>

C14_UnknownCompressionRejected ==
    /\ (nRes # NoResult /\ nArg \notin RecognisedCompression) =>
          /\ nRes = UnsupportedCompression(nArg.v)
          /\ NoWriterCreated
    /\ wState # "none" =>
          /\ nArg \in RecognisedCompression
          /\ nRes = PyOk
          /\ wComp = (IF nArg.some THEN nArg.v ELSE "default")

C14_Witness ==
    /\ nArg = Some("gzip")
    /\ nRes = UnsupportedCompression("gzip")
    /\ wState = "none"


(***************************************************************************)
(* The module's logger (logging.rs 7-35, lib.rs 404-447).  init_logger     *)
(* builds an env_logger with the level as its filter and hands it to       *)
(* try_init, whose result it discards.  try_init installs the logger and   *)
(* sets the global level only when no global logger is installed yet.      *)
(***************************************************************************)
LevelFilter == {"Trace", "Debug", "Info", "Warn", "Error", "Off"}

LogLevelNames == {"trace", "debug", "info", "warn", "error", "off"}

LogLevelArgs == LogLevelNames \cup {"warning", "DEBUG", "verbose"}

to_lowercase(level_str) == IF level_str = "DEBUG" THEN "debug" ELSE level_str

set_log_level_match(lower) ==
    IF lower = "trace" THEN Some("Trace")
    ELSE IF lower = "debug" THEN Some("Debug")
    ELSE IF lower = "info" THEN Some("Info")
    ELSE IF lower \in {"warn", "warning"} THEN Some("Warn")
    ELSE IF lower = "error" THEN Some("Error")
    ELSE IF lower = "off" THEN Some("Off")
    ELSE None

init_logger(level) ==
    IF logOn THEN [on |-> TRUE, level |-> logLevel]
    ELSE [on |-> TRUE, level |-> level]

pisky_module_init ==
    /\ ~logLoaded
    /\ logLoaded' = TRUE
    /\ logOn' = init_logger("Info").on
    /\ logLevel' = init_logger("Info").level
    /\ UNCHANGED <<s1vars, dvars, nArg, nRes, wComp, sExit, logCalls>>
    /\ UNCHANGED <<tvars, wvars, rvars>>

set_log_level(level_str) ==
    /\ logLoaded
    /\ Len(logCalls) < MaxLogCalls
    /\ LET level == set_log_level_match(to_lowercase(level_str)) IN
         IF level.some
         THEN /\ logOn' = init_logger(level.v).on
              /\ logLevel' = init_logger(level.v).level
              /\ logCalls' = Append(logCalls, [arg |-> level_str, res |-> PyOk])
         ELSE /\ logCalls' = Append(logCalls,
                     [arg |-> level_str, res |-> PyIOError("Invalid log level")])
              /\ UNCHANGED <<logOn, logLevel>>
    /\ UNCHANGED <<s1vars, dvars, nArg, nRes, wComp, sExit, logLoaded>>
    /\ UNCHANGED <<tvars, wvars, rvars>>

(***************************************************************************)
(* The logging specification: the module is loaded, then set_log_level is  *)
(* called some number of times with any of the names.                      *)
(***************************************************************************)
LogInit ==
    /\ SingleWriterInit({"none"})
    /\ NoGivenFile
    /\ nArg = None
    /\ nRes = NoResult
    /\ wComp = "unset"
    /\ sExit = NoCall
    /\ logLoaded = FALSE
    /\ logOn = FALSE
    /\ logLevel = "Off"
    /\ logCalls = <<>>
    /\ TInit
    /\ WInit({1}, {None})
    /\ RInit
    /\ NoFiles

LogNext ==
    \/ pisky_module_init
    \/ \E level_str \in LogLevelArgs : set_log_level(level_str)

SpecLog == LogInit /\ [][LogNext]_vars

(***************************************************************************)
(* C15: the log level is info once the module is loaded, and after a call  *)
(* set_log_level(L) with L one of trace, debug, info, warn, error, off     *)
(* that returned success the effective global level is L, whatever calls   *)
(* came before it.                                                         *)
(***************************************************************************)
C15_LogLevelAdjustable ==
    /\ (logLoaded /\ logCalls = <<>>) => logLevel = "Info"
    /\ (/\ logLoaded
        /\ logCalls # <<>>
        /\ logCalls[Len(logCalls)].arg \in LogLevelNames
        /\ logCalls[Len(logCalls)].res = PyOk)
          => logLevel = set_log_level_match(logCalls[Len(logCalls)].arg).v


(***************************************************************************)
(* __exit__ of PyRecordWriter (single_threaded.rs 50-58), of               *)
(* PyMultiThreadedWriter (multi_threaded.rs 162-171) and of                *)
(* PyMultiThreadedReader (405-414): close()?, then Ok(false).  The three   *)
(* exception arguments are not looked at; exc tells whether the scope      *)
(* ended with an exception.                                                *)
(***************************************************************************)
PyBool(b) == [type |-> "Bool", v |-> b]

Exit(obj, exc, closed) ==
    [name |-> "__exit__", late |-> closed, closes |-> 0, obj |-> obj, exc |-> exc]

\* let _ = self.close(); Ok(false)
py_exit_result_ErrorDropped(closed) == PyBool(FALSE)

\* self.close()?; Ok(false)
py_exit_result(closed) == IF closed.type = "PyIOError" THEN closed ELSE PyBool(FALSE)

PyRecordWriter___exit__(exc) ==
    /\ sExit = NoCall
    /\ sCalls < MaxWrites + 2
    /\ LET r == EngineWriterClose
       IN  /\ sBuf' = r.buf
           /\ sFile' = r.file
           /\ sWClosed' = r.closed
           /\ sWRes' = py_exit_result(MapErr(r.res))
           /\ sCloseOk' = (sCloseOk \/ r.res.ok)
    /\ sExit' = [Exit("PyRecordWriter", exc, sWClosed) EXCEPT !.closes = 1]
    /\ sCalls' = sCalls + 1
    /\ UNCHANGED <<sComp, sWritten, sROpen, sRPos, sRRes, sDelivered>>
    /\ UNCHANGED <<dvars, nArg, nRes, wComp, logLoaded, logOn, logLevel, logCalls>>
    /\ UNCHANGED <<tvars, wvars, rvars>>

\* __exit__ enters py_close, which runs writer.close() in py.allow_threads.
py_writer_exit_call(t, exc) ==
    /\ pc[t] = "idle"
    /\ gil = NoThread
    /\ calls < MaxCalls
    /\ calls' = calls + 1
    /\ pc' = [pc EXCEPT ![t] = "w_close"]
    /\ gil' = AllowThreads_writer_close(t)
    /\ op' = [op EXCEPT ![t] = Exit("PyMultiThreadedWriter", exc, wState = "closed")]
    /\ UNCHANGED <<arg, res, wvars>>

py_reader_exit_call(t, exc) ==
    /\ pc[t] = "idle"
    /\ gil = NoThread
    /\ rState # "none"
    /\ calls < MaxCalls
    /\ calls' = calls + 1
    /\ pc' = [pc EXCEPT ![t] = "r_close"]
    /\ gil' = AllowThreads_reader_close(t)
    /\ op' = [op EXCEPT ![t] = Exit("PyMultiThreadedReader", exc, rState = "closed")]
    /\ UNCHANGED <<arg, res, rvars>>

\* py_close has returned: the thread holds the lock again, and __exit__
\* returns the error of close or false.
py_exit_return(t) ==
    /\ pc[t] = "ret"
    /\ op[t].name = "__exit__"
    /\ gil \in {NoThread, t}
    /\ gil' = t
    /\ pc' = [pc EXCEPT ![t] = "done"]
    /\ res' = [res EXCEPT ![t] = py_exit_result(res[t])]
    /\ UNCHANGED <<arg, op, calls>>

(***************************************************************************)
(* The scoped-use specification: one of the three objects is used by a     *)
(* with statement.  Inside the scope its methods are called, close among   *)
(* them, by one Python thread or two; the scope ends, normally or with an  *)
(* exception, with a call of __exit__.                                     *)
(***************************************************************************)
ScopedInit ==
    /\ SingleInit({"none"})
    /\ TInit
    /\ WInit({1}, {Some(1)})
    /\ RInit
    /\ files \in {[s \in WShards |-> <<>>], [s \in WShards |-> <<"a">>]}

NoExitYet == \A t \in PyThreads : op[t].name # "__exit__"

ScopedNext ==
    \/ /\ UsesSingleWriter /\ sExit = NoCall
       /\ \E data \in Records : PyRecordWriter_write_record(data)
    \/ UsesSingleWriter /\ sExit = NoCall /\ PyRecordWriter_close
    \/ UsesSingleWriter /\ \E exc \in BOOLEAN : PyRecordWriter___exit__(exc)
    \/ /\ UsesParallelWriter /\ NoExitYet
       /\ \E t \in PyThreads : py_write_record_call(t, "a")
       /\ UNCHANGED <<svars, rvars>>
    \/ \E t \in PyThreads : EngineWriteRecord(t) /\ UNCHANGED <<svars, rvars>>
    \/ \E t \in PyThreads : py_write_record_wait(t) /\ UNCHANGED <<svars, rvars>>
    \/ /\ UsesParallelWriter /\ NoExitYet
       /\ \E t \in PyThreads : py_writer_close_call(t)
       /\ UNCHANGED <<svars, rvars>>
    \/ /\ UsesParallelWriter /\ NoExitYet
       /\ \E t \in PyThreads, exc \in BOOLEAN : py_writer_exit_call(t, exc)
       /\ UNCHANGED <<svars, rvars>>
    \/ \E t \in PyThreads : EngineWriterCloseBegin(t) /\ UNCHANGED <<svars, rvars>>
    \/ \E t \in PyThreads : EngineWriterCloseEnd(t) /\ UNCHANGED <<svars, rvars>>
    \/ \E w \in WWorkers : EngineWriterWorkerStart(w) /\ UNCHANGED <<svars, rvars>>
    \/ \E w \in WWorkers : EngineWriterWorkerFinish(w) /\ UNCHANGED <<svars, rvars>>
    \/ /\ UsesParallelReader
       /\ py_reader_new(new_with_shard_paths_locator, Some(1), Some(1))
       /\ UNCHANGED <<svars, wvars>>
    \/ \E w \in RWorkers : EngineReaderAssign(w) /\ UNCHANGED <<svars, tvars, wvars>>
    \/ \E w \in RWorkers : EngineReaderPushRecord(w) /\ UNCHANGED <<svars, tvars, wvars>>
    \/ \E w \in RWorkers : EngineReaderShardFinished(w) /\ UNCHANGED <<svars, tvars, wvars>>
    \/ \E w \in RWorkers : EngineReaderEndOfPass(w) /\ UNCHANGED <<svars, tvars, wvars>>
    \/ /\ NoExitYet
       /\ \E t \in PyThreads : py_next_record_call(t)
       /\ UNCHANGED <<svars, wvars>>
    \/ \E t \in PyThreads : py_next_record_read(t) /\ UNCHANGED <<svars, wvars>>
    \/ /\ NoExitYet
       /\ \E t \in PyThreads : py_reader_close_call(t)
       /\ UNCHANGED <<svars, wvars>>
    \/ /\ NoExitYet
       /\ \E t \in PyThreads, exc \in BOOLEAN : py_reader_exit_call(t, exc)
       /\ UNCHANGED <<svars, wvars>>
    \/ \E t \in PyThreads : py_reader_close_step(t) /\ UNCHANGED <<svars, wvars>>
    \/ \E t \in PyThreads : py_exit_return(t) /\ UNCHANGED <<svars, wvars, rvars>>
    \/ /\ \E t \in PyThreads : op[t].name # "__exit__" /\ Return(t)
       /\ UNCHANGED <<svars, wvars, rvars>>
    \/ \E t \in PyThreads : Yield(t) /\ UNCHANGED <<svars, wvars, rvars>>

SpecScoped == ScopedInit /\ [][ScopedNext]_vars


(***************************************************************************)
(* C16: scoped use closes the object on every exit path.  A call of        *)
(* __exit__ on a PyRecordWriter, a PyMultiThreadedWriter or a              *)
(* PyMultiThreadedReader that has returned has called close exactly once,  *)
(* whether or not the scope ended with an exception; it has never returned *)
(* true; it has returned false only with the object closed; and an error   *)
(* of its close call, such as the invalid state of an object that was      *)
(* closed inside the scope, is the error it returned.                      *)
(***************************************************************************)
ObjectClosed(obj) ==
    CASE obj = "PyRecordWriter" -> sWClosed /\ sBuf = <<>>
      [] obj = "PyMultiThreadedWriter" -> wState = "closed" /\ EngineAllDrained
      [] obj = "PyMultiThreadedReader" -> rState = "closed"

ExitReturned(call, result) ==
    /\ call.closes = 1
    /\ result \in {PyBool(FALSE), PyIOError("InvalidState")}
    /\ result = PyBool(FALSE) => ObjectClosed(call.obj)
    /\ call.late => result = PyIOError("InvalidState")

C16_ExitClosesOnce ==
    /\ [](/\ sExit # NoCall => ExitReturned(sExit, sWRes)
          /\ \A t \in PyThreads :
                op[t].name = "__exit__" =>
                   /\ op[t].closes <= 1
                   /\ pc[t] \in {"done", "idle"} => ExitReturned(op[t], res[t]))
    /\ [][\A t \in PyThreads :
             (op[t].name = "__exit__" /\ pc[t] = "ret" /\ pc'[t] = "done"
                 /\ res[t].type = "PyIOError") => res'[t] = res[t]]_vars

C16_Witness ==
    /\ op[1].name = "__exit__"
    /\ op[1].obj = "PyMultiThreadedWriter"
    /\ op[1].exc
    /\ ~op[1].late
    /\ pc[1] = "done"
    /\ res[1] = PyBool(FALSE)
    /\ written = <<"a", "a">>
    /\ files[1] = <<"a", "a">>


(***************************************************************************)
(* The failure specification: a program that meets the four kinds of       *)
(* failure.  It constructs a parallel writer with some compression         *)
(* argument and, when it got one, writes to it and closes it; it opens a   *)
(* single-shard reader on a file that may be missing or damaged and reads  *)
(* it; it reads shard files with a parallel reader and closes it.          *)
(***************************************************************************)
FailureInit ==
    /\ SingleWriterInit({"none"})
    /\ dExists \in BOOLEAN
    /\ dFrames \in (IF dExists THEN {f \in GivenFrames : Len(f) <= 1} ELSE {<<>>})
    /\ dArg \in {None, Some("Error")}
    /\ dOpen = "no"
    /\ dNewRes = NoResult
    /\ dStrategy = "Error"
    /\ dPos = 1
    /\ dFatal = FALSE
    /\ dResults = <<>>
    /\ dCountRes = NoResult
    /\ nArg = None
    /\ nRes = NoResult
    /\ wComp = "unset"
    /\ sExit = NoCall
    /\ logLoaded = TRUE
    /\ logOn = TRUE
    /\ logLevel = "Info"
    /\ logCalls = <<>>
    /\ TInit
    /\ wN = 1
    /\ wReq = None
    /\ wCap = new_with_shards_capacity(wReq)
    /\ wState = "none"
    /\ wCloser = NoThread
    /\ wQueue = [w \in 1..2 |-> <<>>]
    /\ wBusy = [w \in 1..2 |-> FALSE]
    /\ wFailed = [s \in WShards |-> FALSE]
    /\ wFaults = 0
    /\ handle = [t \in PyThreads |-> "none"]
    /\ written = <<>>
    /\ RInit
    /\ NoFiles

FailureNext ==
    \/ \E c \in {None, Some("gzip")} : py_new_with_shards(c)
    \/ PyRecordReader_new_given
    \/ dResults = <<>> /\ PyRecordReader_next_record_given
    \/ /\ wState # "none" /\ rState = "none"
       /\ py_write_record_call(1, "a")
       /\ UNCHANGED <<svars, rvars>>
    \/ EngineWriteRecord(1) /\ UNCHANGED <<svars, rvars>>
    \/ py_write_record_wait(1) /\ UNCHANGED <<svars, rvars>>
    \/ /\ wState # "none" /\ rState = "none"
       /\ py_writer_close_call(1)
       /\ UNCHANGED <<svars, rvars>>
    \/ EngineWriterCloseBegin(1) /\ UNCHANGED <<svars, rvars>>
    \/ EngineWriterCloseEnd(1) /\ UNCHANGED <<svars, rvars>>
    \/ \E w \in WWorkers : EngineWriterWorkerStart(w) /\ UNCHANGED <<svars, rvars>>
    \/ \E w \in WWorkers : EngineWriterWorkerFinish(w) /\ UNCHANGED <<svars, rvars>>
    \/ /\ wState \in {"none", "closed"}
       /\ py_reader_new(new_with_shards_locator, Some(1), None)
       /\ UNCHANGED <<svars, wvars>>
    \/ \E w \in RWorkers : EngineReaderAssign(w) /\ UNCHANGED <<svars, tvars, wvars>>
    \/ \E w \in RWorkers : EngineReaderPushRecord(w) /\ UNCHANGED <<svars, tvars, wvars>>
    \/ \E w \in RWorkers : EngineReaderShardFinished(w) /\ UNCHANGED <<svars, tvars, wvars>>
    \/ \E w \in RWorkers : EngineReaderEndOfPass(w) /\ UNCHANGED <<svars, tvars, wvars>>
    \/ py_next_record_call(1) /\ UNCHANGED <<svars, wvars>>
    \/ py_next_record_read(1) /\ UNCHANGED <<svars, wvars>>
    \/ py_reader_close_call(1) /\ UNCHANGED <<svars, wvars>>
    \/ py_reader_close_step(1) /\ UNCHANGED <<svars, wvars>>
    \/ Return(1) /\ UNCHANGED <<svars, wvars, rvars>>
    \/ Yield(1) /\ UNCHANGED <<svars, wvars, rvars>>

SpecFailure == FailureInit /\ [][FailureNext]_vars

\* A result that is an exception: it carries the message of an error.
IsFailure(r) == "msg" \in DOMAIN r

\* The class of a failure, by what failed.
ErrorClass(e) ==
    CASE e.msg = "Unsupported compression type" -> "configuration"
      [] e.msg = "Io" -> "io"
      [] e.msg = "Corruption" -> "corruption"
      [] e.msg = "InvalidState" -> "invalid-state"

\* What the calls made so far have returned or raised.
Returned == <<nRes, dNewRes, res[1]>> \o dResults

(***************************************************************************)
(* C17: every failure reaches the caller as an error whose type tells its  *)
(* class: of two failures the caller has met, one of them an unsupported   *)
(* compression name, a file that cannot be opened, a corrupt frame under   *)
(* the Error policy, or a call on a closed reader or writer, and the other *)
(* of another of these classes, the two error types differ.                *)
(***************************************************************************)
C17_TypedErrors ==
    \A i, j \in 1..Len(Returned) :
       (/\ IsFailure(Returned[i])
        /\ IsFailure(Returned[j])
        /\ ErrorClass(Returned[i]) # ErrorClass(Returned[j]))
          => Returned[i].type # Returned[j].type


(***************************************************************************)
(* C18: write_record of the parallel writer is blocking.  A call returns   *)
(* success only after a worker has written its record to a shard file and  *)
(* resolved its handle with success, and returns the worker's error when   *)
(* the handle resolved to an error.  The writes in flight are never more   *)
(* than the threads waiting in write_record, so at most one with a single  *)
(* calling thread, and pending_tasks is 0 whenever no write_record call is *)
(* executing.                                                              *)
(***************************************************************************)
InWriteRecord == {t \in PyThreads : pc[t] \in {"w_enq", "w_wait"}}

DamagedFiles == [Paths -> SeqsUpTo(MRecords \cup {CorruptRecord}, MaxFileLen)]

CountInit ==
    /\ SingleInit({"none"})
    /\ TInit
    /\ WInit({1}, {None})
    /\ RInit
    /\ files \in DamagedFiles

CountNext ==
    \/ /\ \E kind \in {new_with_shards_locator, new_with_shard_paths_locator},
             threads \in {Some(1), Some(2)} :
             py_count_records_call(1, kind, threads, Some(1))
       /\ UNCHANGED <<svars, wvars>>
    \/ py_count_records_read(1) /\ UNCHANGED <<svars, wvars>>
    \/ py_count_records_close(1) /\ UNCHANGED <<svars, wvars>>
    \/ \E w \in RWorkers : EngineReaderAssign(w) /\ UNCHANGED <<svars, tvars, wvars>>
    \/ \E w \in RWorkers : EngineReaderPushRecord(w) /\ UNCHANGED <<svars, tvars, wvars>>
    \/ \E w \in RWorkers : EngineReaderPushError(w) /\ UNCHANGED <<svars, tvars, wvars>>
    \/ \E w \in RWorkers : EngineReaderShardFinished(w) /\ UNCHANGED <<svars, tvars, wvars>>
    \/ \E w \in RWorkers : EngineReaderEndOfPass(w) /\ UNCHANGED <<svars, tvars, wvars>>
    \/ Return(1) /\ UNCHANGED <<svars, wvars, rvars>>

SpecCount == CountInit /\ [][CountNext]_vars

FiniteFiles == [Paths -> SeqsUpTo(MRecords \cup {CorruptRecord}, 1)]

FairReadInit ==
    /\ SingleInit({"none"})
    /\ TInit
    /\ WInit({1}, {None})
    /\ RInit
    /\ files \in FiniteFiles

FairReadNext ==
    \/ /\ \E kind \in {new_with_shards_locator, new_with_shard_paths_locator},
             threads \in {Some(1), Some(2)}, queue_mb \in {Some(0), Some(1)} :
             py_reader_new(kind, threads, queue_mb)
       /\ UNCHANGED <<svars, wvars>>
    \/ /\ \E kind \in {new_with_shards_locator, new_with_shard_paths_locator},
             threads \in {Some(1), Some(2)}, queue_mb \in {Some(0), Some(1)} :
             py_count_records_call(1, kind, threads, queue_mb)
       /\ UNCHANGED <<svars, wvars>>
    \/ py_count_records_read(1) /\ UNCHANGED <<svars, wvars>>
    \/ py_count_records_close(1) /\ UNCHANGED <<svars, wvars>>
    \/ \E w \in RWorkers : EngineReaderAssign(w) /\ UNCHANGED <<svars, tvars, wvars>>
    \/ \E w \in RWorkers : EngineReaderPushRecord(w) /\ UNCHANGED <<svars, tvars, wvars>>
    \/ \E w \in RWorkers : EngineReaderPushError(w) /\ UNCHANGED <<svars, tvars, wvars>>
    \/ \E w \in RWorkers : EngineReaderShardFinished(w) /\ UNCHANGED <<svars, tvars, wvars>>
    \/ \E w \in RWorkers : EngineReaderEndOfPass(w) /\ UNCHANGED <<svars, tvars, wvars>>
    \/ py_next_record_call(1) /\ UNCHANGED <<svars, wvars>>
    \/ py_next_record_read(1) /\ UNCHANGED <<svars, wvars>>
    \/ Return(1) /\ UNCHANGED <<svars, wvars, rvars>>
    \/ Yield(1) /\ UNCHANGED <<svars, wvars, rvars>>

\* The caller: it goes on inside a call, and it calls next_record again.
CallerGoesOn ==
    \/ py_count_records_read(1) /\ UNCHANGED <<svars, wvars>>
    \/ py_count_records_close(1) /\ UNCHANGED <<svars, wvars>>
    \/ py_next_record_call(1) /\ UNCHANGED <<svars, wvars>>
    \/ py_next_record_read(1) /\ UNCHANGED <<svars, wvars>>
    \/ Return(1) /\ UNCHANGED <<svars, wvars, rvars>>
    \/ Yield(1) /\ UNCHANGED <<svars, wvars, rvars>>

ReaderWorkerDecodes(w) ==
    \/ ReaderWorkerGoesOn(w)
    \/ w \in RWorkers /\ EngineReaderPushError(w) /\ UNCHANGED <<svars, tvars, wvars>>

SpecFairRead ==
    /\ FairReadInit
    /\ [][FairReadNext]_vars
    /\ WF_vars(CallerGoesOn)
    /\ \A w \in {1, 2} : WF_vars(ReaderWorkerDecodes(w))

\* No record of the shard files is larger than the queue of the reader.
RecordsFit ==
    \A p \in Paths : \A i \in 1..Len(files[p]) : RecSize(files[p][i]) <= rCap

NextRecordReturns == pc[1] = "r_read" ~> pc[1] = "ret"
EndOfStreamReached ==
    (rState = "open" /\ op[1].name # "count_records") ~> DeliveredEnds # {}
CountTerminates == pc[1] = "c_read" ~> pc[1] = "ret"

NextRecordReturnsIfFit == (pc[1] = "r_read" /\ RecordsFit) ~> pc[1] = "ret"
EndOfStreamReachedIfFit ==
    (rState = "open" /\ op[1].name # "count_records" /\ RecordsFit) ~> DeliveredEnds # {}
CountTerminatesIfFit == (pc[1] = "c_read" /\ RecordsFit) ~> pc[1] = "ret"

=============================================================================
